---- MODULE Spec2Model ----
(***************************************************************************)
(* A model of github.com/asecurityteam/settings: the typed Setting         *)
(* variants and their cast-and-set operation, the Source implementations   *)
(* (MapSource, PrefixSource, MultiSource, NewEnvSource), the struct        *)
(* converter, the loader (Load, LoadGroups) and the component contract     *)
(* (VerifyComponent, NewComponent).                                        *)
(*                                                                         *)
(* A Go string is a sequence of one-character strings, so that splitting,  *)
(* lower-casing and parsing are computed and not assumed.  A raw value     *)
(* (interface{}) is a record tagged with its dynamic type in "kind".       *)
(***************************************************************************)
EXTENDS Integers, Sequences, FiniteSets, TLC

VARIABLES
    component,    \* the object given to VerifyComponent and NewComponent
    target,       \* the destination given to NewComponent
    pointee,      \* the value the destination points to
    compRes,      \* the last component call: [op, out, before]
    converted,    \* the last Convert call: [called, v, res]
    forest,       \* the Groups given to the loader
    heap,         \* the values the Settings' pointers address
    backing,      \* the Source given to the loader
    loadRes,      \* the last loader call: [op, src, settings, err, log, before, after]
    multi,        \* the MultiSource under test: its Sources in declared order
    multiGet,     \* the last Get on it: [called, path, res]
    rawMap,       \* the map given to NewMapSource
    mapSrc,       \* what NewMapSource returned: [built, source]
    mapGet,       \* the last Get through PrefixSources around it: [called, prefixes, path, res]
    env,          \* the list of NAME=value strings given to NewEnvSource
    envResult,    \* what NewEnvSource returned: [built, source, err]
    envGet,       \* the last Get on the source it returned: [called, path, res]
    setting,      \* the Setting under test: [variant, value, prev]; value is *XValue, prev what it was before the last call
    setCall       \* the last SetValue call on it: [called, raw, err]

settingVars == <<setting, setCall>>
envVars == <<env, envResult, envGet>>
multiVars == <<multi, multiGet>>
mapVars == <<rawMap, mapSrc, mapGet>>
loadVars == <<forest, heap, backing, loadRes>>
compVars == <<component, target, pointee, compRes, converted>>
vars == <<setting, setCall, env, envResult, envGet, multi, multiGet, rawMap, mapSrc, mapGet,
          forest, heap, backing, loadRes, component, target, pointee, compRes, converted>>

-----------------------------------------------------------------------------
(* Bounds of the model *)

\* longest enumerated raw input string
MaxLen == 2
\* most entries in the environment given to NewEnvSource
MaxEnv == 2
\* most Sources in a MultiSource
MaxSources == 3
\* the spare capacity of the path slices a caller hands to Get
MaxSpare == 1
\* most fields of the struct given to Convert
MaxFields == 2
\* most PrefixSources wrapped around one MapSource
MaxWrap == 2
\* longest path given to Get on them
MaxPath == 2

-----------------------------------------------------------------------------
(* Strings *)

\* an error value is a record; its msg is the text the code formats
NoError == [msg |-> "nil"]

LowerOf(c) ==
    CASE c = "A" -> "a"
      [] c = "B" -> "b"
      [] c = "C" -> "c"
      [] c = "X" -> "x"
      [] c = "Y" -> "y"
      [] c = "Z" -> "z"
      [] c = "N" -> "n"
      [] c = "S" -> "s"
      [] c = "V" -> "v"
      [] OTHER -> c

\* strings.ToLower
ToLower(s) == [i \in 1..Len(s) |-> LowerOf(s[i])]

IsSpace(c) == c = " "

RECURSIVE FieldsFrom(_, _, _)
\* strings.Fields: the maximal runs of non-space characters, in order
FieldsFrom(s, i, cur) ==
    IF i > Len(s)
    THEN IF cur = <<>> THEN <<>> ELSE <<cur>>
    ELSE IF IsSpace(s[i])
         THEN (IF cur = <<>> THEN <<>> ELSE <<cur>>) \o FieldsFrom(s, i + 1, <<>>)
         ELSE FieldsFrom(s, i + 1, Append(cur, s[i]))

Fields(s) == FieldsFrom(s, 1, <<>>)

RECURSIVE SplitFrom(_, _, _, _)
\* strings.Split(s, sep) for a one-character sep: always Count(sep)+1 pieces
SplitFrom(s, sep, i, cur) ==
    IF i > Len(s)
    THEN <<cur>>
    ELSE IF s[i] = sep
         THEN <<cur>> \o SplitFrom(s, sep, i + 1, <<>>)
         ELSE SplitFrom(s, sep, i + 1, Append(cur, s[i]))

Split(s, sep) == SplitFrom(s, sep, 1, <<>>)

RECURSIVE ListsOfLen(_, _)
\* every []T of length n with elements from S
ListsOfLen(S, n) ==
    IF n = 0 THEN {<<>>}
    ELSE {Append(l, e) : l \in ListsOfLen(S, n - 1), e \in S}

-----------------------------------------------------------------------------
(* Numbers: strconv as used by github.com/spf13/cast *)

IsDigit(c) == c \in {"0", "1", "2", "3", "4", "5", "6", "7", "8", "9"}

DigitVal(c) ==
    CASE c = "0" -> 0 [] c = "1" -> 1 [] c = "2" -> 2 [] c = "3" -> 3 [] c = "4" -> 4
      [] c = "5" -> 5 [] c = "6" -> 6 [] c = "7" -> 7 [] c = "8" -> 8 [] c = "9" -> 9

RECURSIVE DecimalFrom(_, _, _)
\* the value of the decimal digits s[i..], accumulated left to right
DecimalFrom(s, i, acc) ==
    IF i > Len(s) THEN acc ELSE DecimalFrom(s, i + 1, acc * 10 + DigitVal(s[i]))

\* strconv.ParseInt(s, 0, 0) on an optional sign followed by decimal digits
\* without a leading zero (no base prefix, no underscore): [ok, n]
ParseInt(s) ==
    LET neg == Len(s) > 0 /\ s[1] = "-"
        pos == Len(s) > 0 /\ s[1] = "+"
        body == IF neg \/ pos THEN SubSeq(s, 2, Len(s)) ELSE s
    IN IF body = <<>> \/ \E i \in 1..Len(body) : ~IsDigit(body[i])
       THEN [ok |-> FALSE, n |-> 0]
       ELSE [ok |-> TRUE, n |-> IF neg THEN 0 - DecimalFrom(body, 1, 0)
                                       ELSE DecimalFrom(body, 1, 0)]

\* strconv.ParseBool: [ok, b]
ParseBool(s) ==
    IF s \in {<<"1">>, <<"t">>, <<"T">>, <<"t", "r", "u", "e">>,
              <<"T", "R", "U", "E">>, <<"T", "r", "u", "e">>}
    THEN [ok |-> TRUE, b |-> TRUE]
    ELSE IF s \in {<<"0">>, <<"f">>, <<"F">>, <<"f", "a", "l", "s", "e">>,
                   <<"F", "A", "L", "S", "E">>, <<"F", "a", "l", "s", "e">>}
         THEN [ok |-> TRUE, b |-> FALSE]
         ELSE [ok |-> FALSE, b |-> FALSE]

DigitChar(d) ==
    CASE d = 0 -> "0" [] d = 1 -> "1" [] d = 2 -> "2" [] d = 3 -> "3" [] d = 4 -> "4"
      [] d = 5 -> "5" [] d = 6 -> "6" [] d = 7 -> "7" [] d = 8 -> "8" [] d = 9 -> "9"

RECURSIVE FormatNat(_)
FormatNat(n) == IF n < 10 THEN <<DigitChar(n)>> ELSE Append(FormatNat(n \div 10), DigitChar(n % 10))

\* strconv.FormatInt(n, 10)
FormatInt(n) == IF n < 0 THEN <<"-">> \o FormatNat(0 - n) ELSE FormatNat(n)

\* Go's conversion int8(v): the low 8 bits, two's complement
Int8Bits == 8


WrapSigned(v, bits) == ((v + 2 ^ (bits - 1)) % (2 ^ bits)) - 2 ^ (bits - 1)

-----------------------------------------------------------------------------
(* Raw values (interface{}) and github.com/spf13/cast *)

RawString(s) == [kind |-> "string", s |-> s]
RawInt(n) == [kind |-> "int", n |-> n]
RawBool(b) == [kind |-> "bool", b |-> b]
RawNil == [kind |-> "nil"]
\* map[string]interface{}: a function from keys to raw values
RawMap(m) == [kind |-> "map", m |-> m]
\* []interface{}
RawSlice(e) == [kind |-> "slice", e |-> e]

EmptyMap == [k \in {} |-> RawNil]

CastError == [msg |-> "unable to cast"]

\* cast.ToStringE
ToStringE(raw) ==
    CASE raw.kind = "string" -> [val |-> raw.s, err |-> NoError]
      [] raw.kind = "int" -> [val |-> FormatInt(raw.n), err |-> NoError]
      [] raw.kind = "bool" -> [val |-> IF raw.b THEN <<"t", "r", "u", "e">>
                                                 ELSE <<"f", "a", "l", "s", "e">>,
                               err |-> NoError]
      [] raw.kind = "nil" -> [val |-> <<>>, err |-> NoError]
      [] OTHER -> [val |-> <<>>, err |-> CastError]

\* cast.ToBoolE
ToBoolE(raw) ==
    CASE raw.kind = "bool" -> [val |-> raw.b, err |-> NoError]
      [] raw.kind = "nil" -> [val |-> FALSE, err |-> NoError]
      [] raw.kind = "int" -> [val |-> raw.n # 0, err |-> NoError]
      [] raw.kind = "string" ->
            LET p == ParseBool(raw.s)
            IN IF p.ok THEN [val |-> p.b, err |-> NoError]
                       ELSE [val |-> FALSE, err |-> CastError]
      [] OTHER -> [val |-> FALSE, err |-> CastError]

\* cast.ToIntE: the zero value comes back with every error
ToIntE(raw) ==
    CASE raw.kind = "int" -> [val |-> raw.n, err |-> NoError]
      [] raw.kind = "bool" -> [val |-> IF raw.b THEN 1 ELSE 0, err |-> NoError]
      [] raw.kind = "nil" -> [val |-> 0, err |-> NoError]
      [] raw.kind = "string" ->
            LET p == ParseInt(raw.s)
            IN IF p.ok THEN [val |-> p.n, err |-> NoError]
                       ELSE [val |-> 0, err |-> CastError]
      [] OTHER -> [val |-> 0, err |-> CastError]

\* cast.ToInt8E: as ToIntE, converted with int8(v)
ToInt8E(raw) ==
    LET r == ToIntE(raw)
    IN [val |-> WrapSigned(r.val, Int8Bits), err |-> r.err]

\* cast.ToUintE: a negative number is an error
ToUintE(raw) ==
    LET r == ToIntE(raw)
    IN IF r.err = NoError /\ r.val < 0
       THEN [val |-> 0, err |-> CastError]
       ELSE r

\* cast.ToStringSliceE: a string is split on white space, a []interface{} is
\* converted element by element, any other value that casts to a string is a
\* slice of one
ToStringSliceE(raw) ==
    CASE raw.kind = "string" -> [val |-> Fields(raw.s), err |-> NoError]
      [] raw.kind = "slice" ->
            [val |-> [i \in 1..Len(raw.e) |-> ToStringE(raw.e[i]).val], err |-> NoError]
      [] raw.kind \in {"int", "bool"} -> [val |-> <<ToStringE(raw).val>>, err |-> NoError]
      [] OTHER -> [val |-> <<>>, err |-> CastError]

\* the index of the first result that carries an error, 0 when none does
FirstBad(results) ==
    IF \E i \in 1..Len(results) : results[i].err # NoError
    THEN CHOOSE i \in 1..Len(results) :
            /\ results[i].err # NoError
            /\ \A j \in 1..(i - 1) : results[j].err = NoError
    ELSE 0

\* cast.ToIntSliceE on a []string: every element through ToIntE; the first
\* failure returns []int{} and the error
ToIntSliceE(strs) ==
    LET results == [i \in 1..Len(strs) |-> ToIntE(RawString(strs[i]))]
    IN IF FirstBad(results) # 0
       THEN [val |-> <<>>, err |-> CastError]
       ELSE [val |-> [i \in 1..Len(strs) |-> results[i].val], err |-> NoError]

\* cast.ToBoolSliceE on a []string
ToBoolSliceE(strs) ==
    LET results == [i \in 1..Len(strs) |-> ToBoolE(RawString(strs[i]))]
    IN IF FirstBad(results) # 0
       THEN [val |-> <<>>, err |-> CastError]
       ELSE [val |-> [i \in 1..Len(strs) |-> results[i].val], err |-> NoError]

\* cast.ToStringMapStringSliceE: a map[string]interface{} is converted value
\* by value (a []interface{} through ToStringSlice, anything else as a slice
\* of its ToString); a string is JSON-decoded, and no enumerated string is a
\* JSON object, so decoding fails with the empty map; any other value fails
\* with the empty map
ToStringMapStringSliceE(raw) ==
    IF raw.kind = "map"
    THEN [val |-> [k \in DOMAIN raw.m |->
                      IF raw.m[k].kind = "slice"
                      THEN ToStringSliceE(raw.m[k]).val
                      ELSE <<ToStringE(raw.m[k]).val>>],
          err |-> NoError]
    ELSE [val |-> [k \in {} |-> <<>>], err |-> CastError]

-----------------------------------------------------------------------------
(* Setting variants *)

Variants ==
    {"String", "Bool", "Int", "Int8", "Uint",
     "BoolSlice", "IntSlice", "StringSlice", "StringMapStringSlice"}

InterimError == [msg |-> "parsing failed at interim string step"]

\* SetValue with the cast's result left unstored
SetValueNotStored(variant, cur, raw) == [val |-> cur, err |-> NoError]

\* XSetting.SetValue(v) on a Setting whose pointee is cur: the new pointee and
\* the returned error.  The scalar variants, StringSlice and the map variant
\* assign both results of the cast at once; BoolSlice and IntSlice return
\* early when the interim []string cannot be made.
SetValue(variant, cur, raw) ==
    CASE variant = "String" -> ToStringE(raw)
      [] variant = "Bool" -> ToBoolE(raw)
      [] variant = "Int" -> ToIntE(raw)
      [] variant = "Int8" -> ToInt8E(raw)
      [] variant = "Uint" -> ToUintE(raw)
      [] variant = "StringSlice" -> ToStringSliceE(raw)
      [] variant = "StringMapStringSlice" -> ToStringMapStringSliceE(raw)
      [] variant = "IntSlice" ->
            LET tmp == ToStringSliceE(raw)
            IN IF tmp.err # NoError
               THEN [val |-> cur, err |-> InterimError]
               ELSE ToIntSliceE(tmp.val)
      [] variant = "BoolSlice" ->
            LET tmp == ToStringSliceE(raw)
            IN IF tmp.err # NoError
               THEN [val |-> cur, err |-> InterimError]
               ELSE ToBoolSliceE(tmp.val)

-----------------------------------------------------------------------------
(* Sources.  A Source is a record: a MapSource [type |-> "map", Map], a     *)
(* PrefixSource [type |-> "prefix", Source, Prefix] or a MultiSource        *)
(* [type |-> "multi", Sources].  Get returns [val, found].                  *)

NotFound == [val |-> RawNil, found |-> FALSE]

RECURSIVE Perms(_)
\* every order in which a range over a map with these keys can visit them
Perms(S) ==
    IF S = {} THEN {<<>>}
    ELSE UNION {{<<x>> \o p : p \in Perms(S \ {x})} : x \in S}

\* the loop of lowerCaseMap leaving every key as it is
LowerCaseRangeKept(current, ord, i) == current

RECURSIVE LowerCaseRange(_, _, _)
\* the loop "for k, v := range current" of lowerCaseMap, visiting the keys in
\* the order ord: a key deleted before its turn is not visited, and visiting
\* a key added by the loop changes nothing
LowerCaseRange(current, ord, i) ==
    IF i > Len(ord) THEN current
    ELSE LET k == ord[i]
             newKey == ToLower(k)
         IN IF k \notin DOMAIN current
            THEN LowerCaseRange(current, ord, i + 1)
            ELSE LET v == current[k]
                     deleted == IF newKey # k
                                THEN [x \in (DOMAIN current) \ {k} |-> current[x]]
                                ELSE current
                     assigned == [x \in (DOMAIN deleted) \cup {newKey} |->
                                     IF x = newKey THEN v ELSE deleted[x]]
                 IN LowerCaseRange(assigned, ord, i + 1)

RECURSIVE LowerCaseMaps(_)
\* lowerCaseMap(m): the maps it can leave behind, one for every order of the
\* ranges (a map value that stays in the tree was pushed on the stack and is
\* lower-cased in place)
LowerCaseMaps(m) ==
    UNION {
        LET level == LowerCaseRange(m, ord, 1)
            Opts(k) == IF level[k].kind = "map"
                       THEN {RawMap(x) : x \in LowerCaseMaps(level[k].m)}
                       ELSE {level[k]}
        IN {f \in [DOMAIN level -> UNION {Opts(k) : k \in DOMAIN level}] :
                \A k \in DOMAIN level : f[k] \in Opts(k)}
        : ord \in Perms(DOMAIN m)}

\* NewMapSource(m): the MapSources it can return
NewMapSources(m) == {[type |-> "map", Map |-> lm] : lm \in LowerCaseMaps(m)}

RECURSIVE MapSourceGetFromLeafOnly(_, _, _)
\* MapSource.Get reporting a nested map under the final segment as not found
MapSourceGetFromLeafOnly(location, path, x) ==
    IF x <= Len(path) - 1
    THEN LET pth == ToLower(path[x])
         IN IF pth \notin DOMAIN location THEN NotFound
            ELSE IF location[pth].kind # "map" THEN NotFound
            ELSE MapSourceGetFromLeafOnly(location[pth].m, path, x + 1)
    ELSE LET last == ToLower(path[Len(path)])
         IN IF last \in DOMAIN location /\ location[last].kind # "map"
            THEN [val |-> location[last], found |-> TRUE]
            ELSE NotFound

RECURSIVE MapSourceGetFrom(_, _, _)
\* the loop of MapSource.Get from segment x (1-based) at location
MapSourceGetFrom(location, path, x) ==
    IF x <= Len(path) - 1
    THEN LET pth == ToLower(path[x])
         IN IF pth \notin DOMAIN location THEN NotFound
            ELSE IF location[pth].kind # "map" THEN NotFound
            ELSE MapSourceGetFrom(location[pth].m, path, x + 1)
    ELSE LET last == ToLower(path[Len(path)])
         IN IF last \in DOMAIN location
            THEN [val |-> location[last], found |-> TRUE]
            ELSE NotFound

\* a string of the form ${p}
IsReference(v) ==
    /\ v.kind = "string"
    /\ Len(v.s) >= 3
    /\ v.s[1] = "$" /\ v.s[2] = "{" /\ v.s[Len(v.s)] = "}"

\* the path a reference ${p} names: p in lower case, split at "_"
ReferencePath(v) == Split(ToLower(SubSeq(v.s, 3, Len(v.s) - 1)), "_")

\* MapSource.Get(path...), path not empty
MapSourceGet(Map, path) == MapSourceGetFrom(Map, path, 1)

\* copy(dst, src) where dst is s[from..]: the elements of s after the copy
GoCopy(s, from, src) ==
    [i \in 1..Len(s) |->
        IF i >= from /\ i - from + 1 <= Len(src) THEN src[i - from + 1] ELSE s[i]]

\* the Prefix put after the path and not before it
PrefixedPathAppended(Prefix, path) == path \o Prefix

\* the path PrefixSource.Get hands to the wrapped Source
PrefixedPath(Prefix, path) ==
    LET appended == path \o Prefix
        shifted == GoCopy(appended, Len(Prefix) + 1, appended)
    IN GoCopy(shifted, 1, Prefix)

\* the capacity append gives a slice of capacity cap that has to hold
\* needed elements and does not: needed when that is more than twice cap,
\* twice cap otherwise (slices of a few strings)
GrowCap(cap, needed) == IF needed > 2 * cap THEN needed ELSE 2 * cap

RECURSIVE GetIn(_, _, _)
RECURSIVE MultiSourceGetFrom(_, _, _, _)

\* the loop of MultiSource.Get from member i; every member is handed the
\* one slice path, as the member before left it
MultiSourceGetFrom(sources, i, path, cap) ==
    IF i > Len(sources) THEN [res |-> NotFound, path |-> path]
    ELSE LET r == GetIn(sources[i], path, cap)
         IN IF r.res.found THEN r ELSE MultiSourceGetFrom(sources, i + 1, r.path, cap)

\* Source.Get(ctx, path...) given the slice path of capacity cap: [res,
\* path], path being the segments the caller's slice holds after the call.
\* The append of PrefixSource.Get writes into the caller's array when the
\* capacity allows, and the two copies then shift the caller's segments.
GetIn(source, path, cap) ==
    CASE source.type = "map" -> [res |-> MapSourceGet(source.Map, path), path |-> path]
      [] source.type = "prefix" ->
            LET needed == Len(path) + Len(source.Prefix)
                prefixed == PrefixedPath(source.Prefix, path)
            IN IF needed <= cap
               THEN [res |-> GetIn(source.Source, prefixed, cap).res,
                     path |-> SubSeq(GetIn(source.Source, prefixed, cap).path, 1, Len(path))]
               ELSE [res |-> GetIn(source.Source, prefixed, GrowCap(cap, needed)).res,
                     path |-> path]
      [] source.type = "multi" -> MultiSourceGetFrom(source.Sources, 1, path, cap)

\* s.Get(ctx, segment, ...): the path is a slice made for the call
Get(source, path) == GetIn(source, path, Len(path)).res

MapSource(m) == [type |-> "map", Map |-> m]
PrefixSource(source, prefix) == [type |-> "prefix", Source |-> source, Prefix |-> prefix]
MultiSource(sources) == [type |-> "multi", Sources |-> sources]

-----------------------------------------------------------------------------
(* NewEnvSource *)

ParseError == [msg |-> "failed to parse variable"]

\* index of the first "=" of s, 0 when there is none
FirstEquals(s) ==
    IF \E i \in 1..Len(s) : s[i] = "="
    THEN CHOOSE i \in 1..Len(s) : s[i] = "=" /\ \A j \in 1..(i - 1) : s[j] # "="
    ELSE 0

RECURSIVE MapAt(_, _)
\* the map that the chain of keys loc leads to from m
MapAt(m, loc) == IF loc = <<>> THEN m ELSE MapAt(m[Head(loc)].m, Tail(loc))

RECURSIVE AssignAtKeepingSubtree(_, _, _, _)
\* "location[key] = v" leaving a map that the key already holds in place
AssignAtKeepingSubtree(m, loc, key, v) ==
    IF loc = <<>>
    THEN [x \in (DOMAIN m) \cup {key} |->
            IF x = key /\ ~(key \in DOMAIN m /\ m[key].kind = "map") THEN v ELSE m[x]]
    ELSE [x \in DOMAIN m |->
            IF x = Head(loc)
            THEN RawMap(AssignAtKeepingSubtree(m[x].m, Tail(loc), key, v))
            ELSE m[x]]

RECURSIVE AssignAt(_, _, _, _)
\* m after "location[key] = v", location being the map at loc
AssignAt(m, loc, key, v) ==
    IF loc = <<>>
    THEN [x \in (DOMAIN m) \cup {key} |-> IF x = key THEN v ELSE m[x]]
    ELSE [x \in DOMAIN m |->
            IF x = Head(loc) THEN RawMap(AssignAt(m[x].m, Tail(loc), key, v)) ELSE m[x]]

\* the loop over the leading parts of a name never leaving the top-level map
EnvWalkFlat(m, loc, path, x) == [m |-> m, loc |-> loc]

RECURSIVE EnvWalk(_, _, _, _)
\* the loop over path[0 .. len(path)-2] of NewEnvSource: [m, loc] when it ends.
\* On a part that holds a value and not a map the loop goes on to the next
\* part ("continue") with location unchanged.
EnvWalk(m, loc, path, x) ==
    IF x > Len(path) - 1 THEN [m |-> m, loc |-> loc]
    ELSE LET part == path[x]
             m1 == IF part \notin DOMAIN MapAt(m, loc)
                   THEN AssignAt(m, loc, part, RawMap(EmptyMap))
                   ELSE m
         IN IF MapAt(m1, loc)[part].kind # "map"
            THEN EnvWalk(m1, loc, path, x + 1)
            ELSE EnvWalk(m1, Append(loc, part), path, x + 1)

RECURSIVE EnvLoop(_, _, _)
\* the loop over env of NewEnvSource from entry i: [m, err]
EnvLoop(m, envList, i) ==
    IF i > Len(envList) THEN [m |-> m, err |-> NoError]
    ELSE LET envStr == envList[i]
             eq == FirstEquals(envStr)
         IN IF eq = 0 THEN [m |-> m, err |-> ParseError]
            ELSE LET name == SubSeq(envStr, 1, eq - 1)
                     value == SubSeq(envStr, eq + 1, Len(envStr))
                     path == Split(name, "_")
                     w == EnvWalk(m, <<>>, path, 1)
                 IN EnvLoop(AssignAt(w.m, w.loc, path[Len(path)], RawString(value)), envList, i + 1)

\* NewEnvSource(env): the results [source, err] it can return; source is
\* meaningful only when err is nil
NewEnvSources(envList) ==
    LET r == EnvLoop(EmptyMap, envList, 1)
    IN IF r.err # NoError
       THEN {[source |-> MapSource(EmptyMap), err |-> r.err]}
       ELSE {[source |-> src, err |-> NoError] : src \in NewMapSources(r.m)}

-----------------------------------------------------------------------------
(* Groups, Settings and the loader.  A Setting is [NameValue,               *)
(* DescriptionValue, variant, ptr]: ptr is the address its XValue pointer   *)
(* holds, and mem maps every address to the value stored there.  A Group is *)
(* a SettingGroup record.                                                   *)

SettingAt(name, description, variant, ptr) ==
    [NameValue |-> name, DescriptionValue |-> description, variant |-> variant, ptr |-> ptr]

SettingGroup(name, description, groups, settings) ==
    [NameValue |-> name, DescriptionValue |-> description,
     GroupValues |-> groups, SettingValues |-> settings]

RECURSIVE BasePath(_, _)
\* the path that reaches the Source under every PrefixSource wrapper
BasePath(source, path) ==
    IF source.type = "prefix"
    THEN BasePath(source.Source, PrefixedPath(source.Prefix, path))
    ELSE path

LoadSettingError(name, cause) ==
    [msg |-> "failed to load setting", name |-> name, cause |-> cause]

LoadGroupError(name, cause) ==
    [msg |-> "failed to load group", name |-> name, cause |-> cause]

RECURSIVE LoadFromContinues(_, _, _, _, _)
\* a Load that goes on to the next Setting after a SetValue failed
LoadFromContinues(source, settings, i, mem, log) ==
    IF i > Len(settings) THEN [mem |-> mem, err |-> NoError, log |-> log]
    ELSE LET st == settings[i]
             r == Get(source, <<st.NameValue>>)
             log1 == Append(log, [op |-> "Get", ptr |-> st.ptr,
                                  seen |-> BasePath(source, <<st.NameValue>>)])
         IN IF r.found
            THEN LET sv == SetValue(st.variant, mem[st.ptr], r.val)
                     mem1 == [mem EXCEPT ![st.ptr] = sv.val]
                     log2 == Append(log1, [op |-> "SetValue", ptr |-> st.ptr, raw |-> r.val])
                     rest == LoadFromContinues(source, settings, i + 1, mem1, log2)
                 IN IF sv.err # NoError
                    THEN [rest EXCEPT !.err = LoadSettingError(st.NameValue, sv.err)]
                    ELSE rest
            ELSE LoadFromContinues(source, settings, i + 1, mem, log1)

RECURSIVE LoadFromSetsOnMiss(_, _, _, _, _)
\* a Load that hands the nil of a miss to SetValue
LoadFromSetsOnMiss(source, settings, i, mem, log) ==
    IF i > Len(settings) THEN [mem |-> mem, err |-> NoError, log |-> log]
    ELSE LET st == settings[i]
             r == Get(source, <<st.NameValue>>)
             log1 == Append(log, [op |-> "Get", ptr |-> st.ptr,
                                  seen |-> BasePath(source, <<st.NameValue>>)])
             sv == SetValue(st.variant, mem[st.ptr], r.val)
             mem1 == [mem EXCEPT ![st.ptr] = sv.val]
             log2 == Append(log1, [op |-> "SetValue", ptr |-> st.ptr, raw |-> r.val])
         IN IF sv.err # NoError
            THEN [mem |-> mem1, err |-> LoadSettingError(st.NameValue, sv.err), log |-> log2]
            ELSE LoadFromSetsOnMiss(source, settings, i + 1, mem1, log2)

RECURSIVE LoadFrom(_, _, _, _, _)
\* the loop of Load from setting i: [mem, err, log]; log records every
\* Source.Get and every SetValue in the order they happen
LoadFrom(source, settings, i, mem, log) ==
    IF i > Len(settings) THEN [mem |-> mem, err |-> NoError, log |-> log]
    ELSE LET st == settings[i]
             r == Get(source, <<st.NameValue>>)
             log1 == Append(log, [op |-> "Get", ptr |-> st.ptr,
                                  seen |-> BasePath(source, <<st.NameValue>>)])
         IN IF r.found
            THEN LET sv == SetValue(st.variant, mem[st.ptr], r.val)
                     mem1 == [mem EXCEPT ![st.ptr] = sv.val]
                     log2 == Append(log1, [op |-> "SetValue", ptr |-> st.ptr, raw |-> r.val])
                 IN IF sv.err # NoError
                    THEN [mem |-> mem1, err |-> LoadSettingError(st.NameValue, sv.err),
                          log |-> log2]
                    ELSE LoadFrom(source, settings, i + 1, mem1, log2)
            ELSE LoadFrom(source, settings, i + 1, mem, log1)

\* Load(ctx, s, settings)
Load(source, settings, mem) == LoadFrom(source, settings, 1, mem, <<>>)

\* the stack entries built without the Groups' own names
PushGroupsUnnamed(stack, path, groups, i) ==
    IF i > Len(groups) THEN stack
    ELSE stack \o [k \in 1..(Len(groups) - i + 1) |->
                      [Path |-> path, Group |-> groups[i + k - 1]]]

\* the stack entry of a child Group built from the root's name alone
PushGroupsRootPath(stack, path, groups, i) ==
    IF i > Len(groups) THEN stack
    ELSE stack \o [k \in 1..(Len(groups) - i + 1) |->
                      [Path |-> IF path = <<>> THEN <<groups[i + k - 1].NameValue>>
                                ELSE <<path[1], groups[i + k - 1].NameValue>>,
                       Group |-> groups[i + k - 1]]]

\* the loop pushing the first of the groups and leaving its siblings out
PushGroupsFirstOnly(stack, path, groups, i) ==
    IF i > Len(groups) THEN stack
    ELSE Append(stack, [Path |-> Append(path, groups[i].NameValue), Group |-> groups[i]])

RECURSIVE PushGroups(_, _, _, _)
\* the loop that pushes groups[i..], each with path extended by its name
PushGroups(stack, path, groups, i) ==
    IF i > Len(groups) THEN stack
    ELSE PushGroups(Append(stack, [Path |-> Append(path, groups[i].NameValue),
                                   Group |-> groups[i]]),
                    path, groups, i + 1)

RECURSIVE LoadGroupsLoop(_, _, _, _)
\* the loop "for len(stack) > 0" of LoadGroups: [mem, err, log]
LoadGroupsLoop(source, stack, mem, log) ==
    IF Len(stack) = 0 THEN [mem |-> mem, err |-> NoError, log |-> log]
    ELSE LET current == stack[Len(stack)]
             popped == SubSeq(stack, 1, Len(stack) - 1)
             pushed == PushGroups(popped, current.Path, current.Group.GroupValues, 1)
             r == LoadFrom(PrefixSource(source, current.Path), current.Group.SettingValues,
                           1, mem,
                           Append(log, [op |-> "Load", path |-> current.Path]))
         IN IF r.err # NoError
            THEN [mem |-> r.mem, err |-> LoadGroupError(current.Group.NameValue, r.err),
                  log |-> r.log]
            ELSE LoadGroupsLoop(source, pushed, r.mem, r.log)

\* LoadGroups(ctx, s, groups)
LoadGroups(source, groups, mem) ==
    LoadGroupsLoop(source, PushGroups(<<>>, <<>>, groups, 1), mem, <<>>)

-----------------------------------------------------------------------------
(* Go types and values as package reflect shows them                       *)
(*                                                                         *)
(* A type is [pkg, name, kind, elem]: name is Type.Name() (empty for an     *)
(* unnamed type), kind is Type.Kind(), elem names the pointee of a pointer. *)

GoType(pkg, name, kind, elem) == [pkg |-> pkg, name |-> name, kind |-> kind, elem |-> elem]

ContextType == GoType("context", "Context", "interface", "")
EmptyInterfaceType == GoType("", "", "interface", "")
\* the predeclared error
ErrorType == GoType("", "error", "interface", "")
\* a package's own "type error string"
LocalErrorType == GoType("main", "error", "string", "")
IntType == GoType("", "int", "int", "")
StringType == GoType("", "string", "string", "")
TestInterfaceType == GoType("settings", "testInterface", "interface", "")
StructType(name) == GoType("settings", name, "struct", "")
PtrTo(name) == GoType("", "", "ptr", name)

\* reflect.TypeOf(context.Background())
BackgroundType == PtrTo("emptyCtx")

\* the type a pointer type points to
ElemType(t) == IF t.elem = "int" THEN IntType ELSE StructType(t.elem)

\* the method set of t holds the methods of the interface type iface
Implements(t, iface) ==
    \/ iface = EmptyInterfaceType
    \/ t = iface
    \/ iface = ContextType /\ t = BackgroundType
    \/ iface = ErrorType /\ t = PtrTo("errorString")
    \/ iface = TestInterfaceType /\ t = PtrTo("testItem")

\* Type.ConvertibleTo
ConvertibleTo(from, to) ==
    \/ from = to
    \/ to.kind = "interface" /\ Implements(from, to)
    \/ from.kind = "int" /\ to.kind \in {"int", "string"}
    \/ from.kind = "string" /\ to.kind = "string"

\* Type.AssignableTo, which Value.Set demands
AssignableTo(from, to) ==
    \/ from = to
    \/ to.kind = "interface" /\ Implements(from, to)

\* the values handed to Convert and found in the fields of a struct:
\* untyped nil, a value of a basic type stored at address ptr, or a struct
NilValue == [kind |-> "nil"]

BasicValue(goKind, defined, pointer, isNil, ptr) ==
    [kind |-> "basic", goKind |-> goKind, defined |-> defined,
     pointer |-> pointer, isNil |-> isNil, ptr |-> ptr]

StructValue(typeName, pointer, isNil, namer, describer, fields) ==
    [kind |-> "struct", typeName |-> typeName, pointer |-> pointer, isNil |-> isNil,
     namer |-> namer, describer |-> describer, fields |-> fields]

\* a struct field: reflect.StructField and the field's value
StructField(name, anonymous, description, exported, value) ==
    [Name |-> name, Anonymous |-> anonymous, description |-> description,
     exported |-> exported, value |-> value]

\* a struct without the optional Name() or Description() method
NoMethod == [has |-> FALSE, text |-> <<>>]
Method(text) == [has |-> TRUE, text |-> text]

-----------------------------------------------------------------------------
(* Convert *)

NoGroup == SettingGroup(<<>>, <<>>, <<>>, <<>>)
NoSetting == SettingAt(<<>>, <<>>, "String", 0)

ConvertOk(g) == [g |-> g, err |-> NoError, panic |-> FALSE]
ConvertErr(e) == [g |-> NoGroup, err |-> e, panic |-> FALSE]
ConvertPanic == [g |-> NoGroup, err |-> NoError, panic |-> TRUE]

\* the Setting variant settingFromValue picks for a type: time.Time and
\* time.Duration by the type's name, the others by Kind, a map by its type's
\* name and a slice by its element
VariantOfKind ==
    "time.Time" :> "Time" @@ "time.Duration" :> "Duration" @@ "bool" :> "Bool"
    @@ "int8" :> "Int8" @@ "int16" :> "Int16" @@ "int32" :> "Int32" @@ "int64" :> "Int64"
    @@ "map[string][]string" :> "StringMapStringSlice"
    @@ "uint" :> "Uint" @@ "uint8" :> "Uint8" @@ "uint16" :> "Uint16"
    @@ "uint32" :> "Uint32" @@ "uint64" :> "Uint64" @@ "int" :> "Int"
    @@ "float32" :> "Float32" @@ "float64" :> "Float64" @@ "string" :> "String"
    @@ "[]time.Duration" :> "DurationSlice" @@ "[]string" :> "StringSlice"
    @@ "[]int" :> "IntSlice"

\* settingFromValue(name, description, v) for the field of a struct; the
\* field's exported says whether Value.Set accepts v.Addr()
settingFromValue(name, description, v, exported) ==
    IF v.goKind \notin DOMAIN VariantOfKind
    THEN [set |-> NoSetting, panic |-> FALSE,
          err |-> [msg |-> "unknown setting type", kind |-> v.goKind]]
    ELSE IF ~exported \/ v.defined
    THEN [set |-> NoSetting, panic |-> TRUE, err |-> NoError]
    ELSE [set |-> SettingAt(name, description, VariantOfKind[v.goKind], v.ptr),
          panic |-> FALSE, err |-> NoError]

\* the stack filled from the last field down to the first
FieldsOfReversed(v) ==
    [x \in 1..Len(v.fields) |-> [Field |-> v.fields[Len(v.fields) + 1 - x],
                                 Value |-> v.fields[Len(v.fields) + 1 - x].value]]

\* the stack Convert fills from the fields of a struct, in declaration order
FieldsOf(v) == [x \in 1..Len(v.fields) |-> [Field |-> v.fields[x], Value |-> v.fields[x].value]]

RECURSIVE Convert(_)
RECURSIVE ConvertStack(_, _)
RECURSIVE ConvertStackUnflattened(_, _)
\* the loop of Convert handing an embedded struct to Convert like any other
\* struct field and not pushing its fields on the stack
ConvertStackUnflattened(stack, g) ==
    IF Len(stack) = 0 THEN ConvertOk(g)
    ELSE LET current == stack[Len(stack)]
             rest == SubSeq(stack, 1, Len(stack) - 1)
             currentF == current.Field
             currentV == current.Value
         IN IF currentV.pointer /\ currentV.isNil
            THEN ConvertErr([msg |-> "must be a pointer type", name |-> g.NameValue,
                             field |-> currentF.Name])
            ELSE IF currentV.kind # "struct"
            THEN LET r == settingFromValue(currentF.Name, currentF.description, currentV,
                                           currentF.exported)
                 IN IF r.panic THEN ConvertPanic
                    ELSE IF r.err # NoError
                    THEN ConvertErr([msg |-> "failed to convert", name |-> g.NameValue,
                                     field |-> currentF.Name, cause |-> r.err])
                    ELSE ConvertStackUnflattened(rest,
                                                 [g EXCEPT !.SettingValues = Append(@, r.set)])
            ELSE IF ~currentF.exported
            THEN ConvertPanic
            ELSE LET sub == Convert(currentV)
                 IN IF sub.panic THEN ConvertPanic
                    ELSE IF sub.err # NoError THEN ConvertErr(sub.err)
                    ELSE ConvertStackUnflattened(rest,
                                                 [g EXCEPT !.GroupValues = Append(@, sub.g)])

\* the loop "for len(stack) > 0" of Convert, filling the Group g
ConvertStack(stack, g) ==
    IF Len(stack) = 0 THEN ConvertOk(g)
    ELSE LET current == stack[Len(stack)]
             rest == SubSeq(stack, 1, Len(stack) - 1)
             currentF == current.Field
             currentV == current.Value
             \* reflect.Indirect of a nil pointer is the zero Value
             invalid == currentV.pointer /\ currentV.isNil
         IN IF currentV.kind = "struct" /\ ~invalid /\ currentF.Anonymous
            THEN ConvertStack(rest \o FieldsOf(currentV), g)
            ELSE IF invalid
            THEN ConvertErr([msg |-> "must be a pointer type", name |-> g.NameValue,
                             field |-> currentF.Name])
            ELSE IF currentV.kind # "struct"
            THEN LET r == settingFromValue(currentF.Name, currentF.description, currentV,
                                           currentF.exported)
                 IN IF r.panic THEN ConvertPanic
                    ELSE IF r.err # NoError
                    THEN ConvertErr([msg |-> "failed to convert", name |-> g.NameValue,
                                     field |-> currentF.Name, cause |-> r.err])
                    ELSE ConvertStack(rest, [g EXCEPT !.SettingValues = Append(@, r.set)])
            ELSE IF ~currentF.exported
            THEN ConvertPanic
            ELSE LET sub == Convert(currentV)
                 IN IF sub.panic THEN ConvertPanic
                    ELSE IF sub.err # NoError THEN ConvertErr(sub.err)
                    ELSE ConvertStack(rest, [g EXCEPT !.GroupValues = Append(@, sub.g)])

\* Convert(v): [g, err, panic]
Convert(v) ==
    IF v.kind = "nil" THEN ConvertErr([msg |-> "nil value given to Convert"])
    ELSE IF v.pointer /\ v.isNil THEN ConvertPanic
    ELSE IF v.kind # "struct" THEN ConvertErr([msg |-> "non-struct value given to Convert"])
    ELSE IF ~v.pointer THEN ConvertErr([msg |-> "unaddressable value given to Convert"])
    ELSE LET nameTmp == Split(v.typeName, ".")
             name == IF v.namer.has THEN v.namer.text ELSE nameTmp[Len(nameTmp)]
             desc == IF v.describer.has THEN v.describer.text ELSE <<>>
         IN ConvertStack(FieldsOf(v), SettingGroup(name, desc, <<>>, <<>>))

-----------------------------------------------------------------------------
(* The component contract                                                  *)
(*                                                                         *)
(* A component is [methods, Settings, New, conf, behaviour]: the names of   *)
(* its exported methods, the argument and return types of its Settings and *)
(* New methods, the value its Settings returns, and what its New does.     *)

Signature(in, out) == [In |-> in, Out |-> out]

\* VerifyComponent(v)
VerifyComponent(v) ==
    IF "Settings" \notin v.methods
    THEN [msg |-> "does not have a Settings() T method"]
    ELSE IF "New" \notin v.methods
    THEN [msg |-> "does not have a New(ctx, T) (T2, error) method"]
    ELSE IF Len(v.Settings.In) # 0
    THEN [msg |-> "method Settings must not take arguments"]
    ELSE IF Len(v.Settings.Out) # 1
    THEN [msg |-> "method Settings must return only one value"]
    ELSE IF Len(v.New.In) # 2
    THEN [msg |-> "method New must take only two arguments"]
    ELSE IF Len(v.New.Out) # 2
    THEN [msg |-> "method New must return only two values"]
    ELSE IF ~ConvertibleTo(BackgroundType, v.New.In[1])
    THEN [msg |-> "method New must accept context as the first argument"]
    ELSE IF ~ConvertibleTo(v.Settings.Out[1], v.New.In[2])
    THEN [msg |-> "method New must accept an instance of Settings() return value"]
    ELSE IF v.New.Out[2].name # "error"
    THEN [msg |-> "method New must return an error as the second value"]
    ELSE NoError

\* the addresses of the fields of a configuration value, nested ones included
RECURSIVE PtrsOf(_)
PtrsOf(v) ==
    IF v.kind = "basic" THEN {v.ptr}
    ELSE IF v.kind = "struct" THEN UNION {PtrsOf(v.fields[x].value) : x \in 1..Len(v.fields)}
    ELSE {}

NewFailed == [msg |-> "error"]

\* the two values the component's New returns for the configuration c: a
\* result built from the fields of c as they are when New runs, or nil
New(v, c, mem) ==
    LET built == [p \in PtrsOf(c) |-> mem[p]]
    IN CASE v.behaviour = "build" -> [nil |-> FALSE, val |-> built, err |-> NoError]
         [] v.behaviour = "nil" -> [nil |-> TRUE, val |-> <<>>, err |-> NoError]
         [] v.behaviour = "fail" -> [nil |-> TRUE, val |-> <<>>, err |-> NewFailed]

NoValue == [type |-> EmptyInterfaceType, nil |-> TRUE, val |-> <<>>]

\* how far NewComponent has come: the steps it has entered, in order
Outcome(steps, err, panic, mem) ==
    [steps |-> steps, err |-> err, panic |-> panic, mem |-> mem,
     smOut |-> NilValue, arg |-> NilValue, stored |-> FALSE, nV |-> NoValue]

\* the end of NewComponent going on to the result without a look at nErr
CallNewIgnoresError(v, destination, smOut, mem, steps) ==
    LET nOuts == New(v, smOut, mem)
        type0 == v.New.Out[1]
        nV == [type |-> IF type0.kind = "ptr" THEN ElemType(type0) ELSE type0,
               nil |-> nOuts.nil, val |-> nOuts.val]
        base == [Outcome(Append(steps, "New"), NoError, FALSE, mem)
                    EXCEPT !.smOut = smOut, !.arg = smOut]
    IN IF type0.kind = "ptr" /\ nOuts.nil
       THEN [base EXCEPT !.panic = TRUE]
       ELSE IF ~ConvertibleTo(nV.type, destination.elem)
       THEN [base EXCEPT !.err = [msg |-> "cannot convert"]]
       ELSE [base EXCEPT !.stored = TRUE, !.nV = nV]

\* the end of NewComponent, from nm.Call on
CallNew(v, destination, smOut, mem, steps) ==
    LET arg == smOut
        nOuts == New(v, arg, mem)
        type0 == v.New.Out[1]
        \* reflect.Indirect(nV): the pointee of a pointer, the zero Value of a nil one
        invalid == type0.kind = "ptr" /\ nOuts.nil
        nV == [type |-> IF type0.kind = "ptr" THEN ElemType(type0) ELSE type0,
               nil |-> nOuts.nil, val |-> nOuts.val]
        base == [Outcome(Append(steps, "New"), NoError, FALSE, mem)
                    EXCEPT !.smOut = smOut, !.arg = arg]
    IN IF v.New.Out[2].kind \notin {"interface", "ptr"}
       THEN [base EXCEPT !.panic = TRUE]
       ELSE IF nOuts.err # NoError
       THEN [base EXCEPT !.err = nOuts.err]
       ELSE IF invalid
       THEN [base EXCEPT !.panic = TRUE]
       ELSE IF ~ConvertibleTo(nV.type, destination.elem)
       THEN [base EXCEPT !.err = [msg |-> "cannot convert"]]
       ELSE IF ~AssignableTo(nV.type, destination.elem)
       THEN [base EXCEPT !.panic = TRUE]
       ELSE [base EXCEPT !.stored = TRUE, !.nV = nV]

\* the steps of NewComponent in the order it takes them
Steps(n) ==
    SubSeq(<<"destination", "VerifyComponent", "Settings", "Convert", "LoadGroups">>, 1, n)

\* NewComponent once LoadGroups has returned l
Loaded(v, destination, smOut, l) ==
    IF l.err # NoError
    THEN [Outcome(Steps(5), l.err, FALSE, l.mem) EXCEPT !.smOut = smOut]
    ELSE CallNew(v, destination, smOut, l.mem, Steps(5))

\* NewComponent once Convert has returned c
Converted(s, v, destination, smOut, c, mem) ==
    IF c.panic THEN [Outcome(Steps(4), NoError, TRUE, mem) EXCEPT !.smOut = smOut]
    ELSE IF c.err # NoError
    THEN [Outcome(Steps(4), c.err, FALSE, mem) EXCEPT !.smOut = smOut]
    ELSE Loaded(v, destination, smOut, LoadGroups(s, <<c.g>>, mem))

\* NewComponent(ctx, s, v, destination) with the Settings' values in mem
NewComponent(s, v, destination, mem) ==
    IF destination.kind = "nil"
    THEN Outcome(Steps(1), NoError, TRUE, mem)
    ELSE IF destination.kind # "ptr"
    THEN Outcome(Steps(1), [msg |-> "must be a pointer type"], FALSE, mem)
    ELSE IF destination.isNil
    THEN Outcome(Steps(1), [msg |-> "cannot be nil"], FALSE, mem)
    ELSE IF VerifyComponent(v) # NoError
    THEN Outcome(Steps(2), VerifyComponent(v), FALSE, mem)
    ELSE Converted(s, v, destination, v.conf, Convert(v.conf), mem)

\* GroupFromComponent(v): the steps taken with the error returned, and the
\* result of Convert; the Source s is at hand but not an argument
GroupFromComponent(s, v, mem) ==
    IF VerifyComponent(v) # NoError
    THEN [out |-> Outcome(<<"VerifyComponent">>, VerifyComponent(v), FALSE, mem),
          res |-> ConvertErr(VerifyComponent(v))]
    ELSE LET smOut == v.conf
             c == Convert(smOut)
         IN [out |-> [Outcome(<<"VerifyComponent", "Settings", "Convert">>,
                              c.err, c.panic, mem) EXCEPT !.smOut = smOut],
             res |-> c]

-----------------------------------------------------------------------------
(* The state of a part of the program that a specification leaves unused *)

NoCall == [called |-> FALSE, raw |-> RawNil, err |-> NoError]

NoGet == [called |-> FALSE, path |-> <<>>, res |-> NotFound]

NotBuilt == [built |-> FALSE, source |-> MapSource(EmptyMap), err |-> NoError]

NoLoad ==
    [op |-> "none", src |-> MapSource(EmptyMap), settings |-> <<>>, err |-> NoError,
     log |-> <<>>, before |-> <<>>, after |-> <<>>]

Destination(kind, isNil, elem) == [kind |-> kind, isNil |-> isNil, elem |-> elem]

NoComponent ==
    [methods |-> {}, Settings |-> Signature(<<>>, <<>>), New |-> Signature(<<>>, <<>>),
     conf |-> NilValue, behaviour |-> "build"]

NoComp == [op |-> "none", out |-> Outcome(<<>>, NoError, FALSE, <<>>), before |-> <<>>]

\* the parts of the program a specification leaves unused stay as constructed
Idle(parts) ==
    /\ "setting" \in parts =>
          /\ setting = [variant |-> "String", value |-> <<>>, prev |-> <<>>]
          /\ setCall = NoCall
    /\ "env" \in parts =>
          /\ env = <<>>
          /\ envResult = NotBuilt
          /\ envGet = NoGet
    /\ "multi" \in parts =>
          /\ multi = <<>>
          /\ multiGet = NoGet
    /\ "map" \in parts =>
          /\ rawMap = EmptyMap
          /\ mapSrc = [built |-> FALSE, source |-> MapSource(EmptyMap)]
          /\ mapGet = [called |-> FALSE, prefixes |-> <<>>, path |-> <<>>, res |-> NotFound]
    /\ "load" \in parts =>
          /\ forest = <<>>
          /\ heap = <<>>
          /\ backing = MapSource(EmptyMap)
          /\ loadRes = NoLoad
    /\ "component" \in parts =>
          /\ component = NoComponent
          /\ target = Destination("nil", TRUE, EmptyInterfaceType)
          /\ pointee = NoValue
          /\ compRes = NoComp
          /\ converted = [called |-> FALSE, v |-> NilValue, res |-> ConvertOk(NoGroup)]

-----------------------------------------------------------------------------
(* The NewEnvSource specification *)

EnvEntries ==
    {<<"A", "_", "B", "=", "x">>,
     <<"A", "_", "B", "_", "C", "=", "y">>,
     <<"A", "=", "1">>,
     <<"a", "_", "b", "=", "z">>,
     <<"B", "=", "2">>,
     <<"B", "_", "B", "=", "w">>,
     <<"A", "_", "C", "=", "v">>,
     <<"A", "B">>}

EnvLists == UNION {ListsOfLen(EnvEntries, n) : n \in 0..MaxEnv}

EnvInit ==
    /\ env \in EnvLists
    /\ envResult = NotBuilt
    /\ envGet = NoGet
    /\ Idle({"setting", "multi", "load", "component", "map"})

\* s, err := NewEnvSource(env)
NewEnvSourceCall ==
    /\ ~envResult.built
    /\ \E r \in NewEnvSources(env) :
          envResult' = [built |-> TRUE, source |-> r.source, err |-> r.err]
    /\ UNCHANGED <<env, envGet>>
    /\ UNCHANGED <<settingVars, multiVars, mapVars, loadVars, compVars>>

\* s.Get(ctx, path...) on the source NewEnvSource returned
EnvGetCall ==
    /\ envResult.built
    /\ envResult.err = NoError
    /\ \E path \in {<<<<"a">>>>, <<<<"b">>>>, <<<<"a">>, <<"b">>>>, <<<<"A">>, <<"B">>>>,
                    <<<<"a">>, <<"c">>>>, <<<<"a">>, <<"b">>, <<"c">>>>} :
          envGet' = [called |-> TRUE, path |-> path, res |-> Get(envResult.source, path)]
    /\ UNCHANGED <<env, envResult>>
    /\ UNCHANGED <<settingVars, multiVars, mapVars, loadVars, compVars>>

EnvNext == NewEnvSourceCall \/ EnvGetCall

EnvSpec == EnvInit /\ [][EnvNext]_vars

\* the parts of an entry with a "="
EntryName(e) == SubSeq(e, 1, FirstEquals(e) - 1)
EntryValue(e) == SubSeq(e, FirstEquals(e) + 1, Len(e))
EntryPath(e) == Split(EntryName(e), "_")

IsProperPrefix(p, q) == Len(p) < Len(q) /\ SubSeq(q, 1, Len(p)) = p

\* the pairs <<i, j>>: entry j runs through the leaf that the earlier entry i set
EnvConflicts ==
    {ij \in (1..Len(env)) \X (1..Len(env)) :
        /\ ij[1] < ij[2]
        /\ IsProperPrefix(EntryPath(env[ij[1]]), EntryPath(env[ij[2]]))}

RECURSIVE LeafStrings(_)
\* every string stored as a value anywhere in the tree m
LeafStrings(m) ==
    UNION {IF m[k].kind = "map" THEN LeafStrings(m[k].m)
           ELSE IF m[k].kind = "string" THEN {m[k].s} ELSE {} : k \in DOMAIN m}

WellFormedEnv == \A i \in 1..Len(env) : FirstEquals(env[i]) # 0

\* C4: when an entry's path runs through an existing leaf value (A_B=x set,
\* then A_B_C=y), NewEnvSource returns no error, the existing leaf keeps its
\* value, and the conflicting entry is skipped: its value is stored nowhere
\* in the resulting tree.
C4_ConflictingEntrySkipped ==
    (envResult.built /\ WellFormedEnv /\ EnvConflicts # {}) =>
        /\ envResult.err = NoError
        /\ \A ij \in EnvConflicts :
              /\ Get(envResult.source, EntryPath(env[ij[1]]))
                    = [val |-> RawString(EntryValue(env[ij[1]])), found |-> TRUE]
              /\ EntryValue(env[ij[2]]) \notin LeafStrings(envResult.source.Map)

RECURSIVE Nested(_)
\* the nested map that a set of <<path, value>> pairs spells out: the first
\* segments are the keys, a pair ending there gives the key its value, and
\* the pairs going on give it the nested map of their remaining segments
Nested(pairs) ==
    [k \in {pv[1][1] : pv \in pairs} |->
        LET under == {pv \in pairs : pv[1][1] = k}
        IN IF \E pv \in under : Len(pv[1]) = 1
           THEN RawString((CHOOSE pv \in under : Len(pv[1]) = 1)[2])
           ELSE RawMap(Nested({<<Tail(pv[1]), pv[2]>> : pv \in under}))]

\* the MapSources NewMapSource can build from the nested map equivalent to env
EquivalentSources ==
    NewMapSources(Nested({<<EntryPath(env[i]), EntryValue(env[i])>> : i \in 1..Len(env)}))

\* no name is a proper "_"-delimited prefix of another
NoPrefixNames ==
    \A i, j \in 1..Len(env) : ~IsProperPrefix(EntryPath(env[i]), EntryPath(env[j]))

\* the names are pairwise distinct, and two names whose leading segments
\* agree up to letter case spell those segments the same way
ConsistentNames ==
    \A i, j \in 1..Len(env) :
        i # j =>
           /\ EntryPath(env[i]) # EntryPath(env[j])
           /\ \A k \in 1..Len(EntryPath(env[i])) :
                 (/\ k <= Len(EntryPath(env[j]))
                  /\ \A x \in 1..k :
                        ToLower(EntryPath(env[i])[x]) = ToLower(EntryPath(env[j])[x]))
                    => SubSeq(EntryPath(env[i]), 1, k) = SubSeq(EntryPath(env[j]), 1, k)

\* what C14 says of the source NewEnvSource returned
EnvSourceIsNestedMap ==
    /\ envResult.err = NoError
    /\ \A i \in 1..Len(env) :
          Get(envResult.source, EntryPath(env[i]))
             = [val |-> RawString(EntryValue(env[i])), found |-> TRUE]
    /\ envGet.called =>
          \A src \in EquivalentSources : envGet.res = Get(src, envGet.path)

\* C14 as claimed: for a list of NAME=value entries in which no name is a
\* proper "_"-delimited prefix of another, Get on the "_"-split segments of
\* each NAME returns that entry's value as a string, and Get agrees on every
\* path with a MapSource built by NewMapSource from the equivalent nested map.
C14_EnvSourceAsClaimed ==
    (envResult.built /\ WellFormedEnv /\ NoPrefixNames) => EnvSourceIsNestedMap

\* C14 amended: the same, for a list whose names are also pairwise distinct
\* and spell the leading segments they share up to letter case identically.
C14_EnvSourceOfConsistentNames ==
    (envResult.built /\ WellFormedEnv /\ NoPrefixNames /\ ConsistentNames)
        => EnvSourceIsNestedMap

\* A_B=x and A_C=v share the subtree a, and a Get below it was found
C14_Witness ==
    /\ envResult.built
    /\ WellFormedEnv /\ NoPrefixNames /\ ConsistentNames
    /\ Len(env) = 2
    /\ EntryPath(env[1])[1] = EntryPath(env[2])[1]
    /\ envGet.called
    /\ Len(envGet.path) = 2
    /\ envGet.res.found

RECURSIVE HoldsSubtree(_, _)
\* the tree m holds a map at the path
HoldsSubtree(m, path) ==
    /\ Head(path) \in DOMAIN m
    /\ m[Head(path)].kind = "map"
    /\ Len(path) > 1 => HoldsSubtree(m[Head(path)].m, Tail(path))

\* the entries before the last one whose names go deeper than the last name
DeeperBefore ==
    {i \in 1..(Len(env) - 1) :
        IsProperPrefix(EntryPath(env[Len(env)]), EntryPath(env[i]))}

\* the last entry is a leaf entry processed after a deeper entry, and the
\* tree built from the entries before it holds a subtree at the leaf's path
LeafAfterDeeper ==
    /\ Len(env) >= 2
    /\ WellFormedEnv /\ ConsistentNames
    /\ DeeperBefore # {}
    /\ HoldsSubtree(EnvLoop(EmptyMap, SubSeq(env, 1, Len(env) - 1), 1).m,
                    EntryPath(env[Len(env)]))

-----------------------------------------------------------------------------
(* The MultiSource specification *)

\* a Source without the key, two Sources with it, a Source holding nil under
\* it, and a PrefixSource
MemberSources ==
    {MapSource(EmptyMap),
     MapSource(<<"x">> :> RawString(<<"a">>)),
     MapSource(<<"x">> :> RawString(<<"b">>)
               @@ <<"p">> :> RawMap(<<"x">> :> RawString(<<"c">>))),
     MapSource(<<"x">> :> RawNil),
     \* {"y": "${x}"}, {"y": "${P_X}"} and the cycle x -> y -> q -> x
     MapSource(<<"y">> :> RawString(<<"$", "{", "x", "}">>)),
     MapSource(<<"y">> :> RawString(<<"$", "{", "P", "_", "X", "}">>)),
     MapSource(<<"x">> :> RawString(<<"$", "{", "y", "}">>)
               @@ <<"y">> :> RawString(<<"$", "{", "q", "}">>)
               @@ <<"q">> :> RawString(<<"$", "{", "x", "}">>)),
     PrefixSource(MapSource(<<"x">> :> RawString(<<"a">>)), <<<<"p">>>>),
     PrefixSource(MapSource(<<"x">> :> RawString(<<"b">>)
                            @@ <<"p">> :> RawMap(<<"x">> :> RawString(<<"c">>))),
                  <<<<"p">>>>)}

MultiSources == UNION {ListsOfLen(MemberSources, n) : n \in 0..MaxSources}

MultiInit ==
    /\ multi \in MultiSources
    /\ multiGet = [called |-> FALSE, path |-> <<>>, cap |-> 0, after |-> <<>>, res |-> NotFound]
    /\ Idle({"setting", "env", "load", "component", "map"})

\* MultiSource(multi).Get(ctx, path...), path a slice of the caller's with
\* up to MaxSpare elements of spare capacity; after is what the slice holds
\* when Get has returned
MultiGetCall ==
    /\ \E path \in {<<<<"x">>>>, <<<<"X">>>>, <<<<"p">>, <<"x">>>>, <<<<"y">>>>} :
          \E cap \in Len(path)..(Len(path) + MaxSpare) :
             multiGet' = [called |-> TRUE, path |-> path, cap |-> cap,
                          after |-> GetIn(MultiSource(multi), path, cap).path,
                          res |-> GetIn(MultiSource(multi), path, cap).res]
    /\ UNCHANGED multi
    /\ UNCHANGED <<settingVars, envVars, mapVars, loadVars, compVars>>

MultiNext == MultiGetCall

MultiSpec == MultiInit /\ [][MultiNext]_vars

\* the members that report found for the path of the last Get
MultiHits == {i \in 1..Len(multi) : Get(multi[i], multiGet.path).found}

\* C3: MultiSource.Get returns the result of the first Source, in declared
\* order, whose Get reports found; the Sources after it do not affect the
\* result; it reports not-found exactly when every member does (so an empty
\* MultiSource always reports not-found).
C3_MultiSourceFirstFound ==
    multiGet.called =>
        /\ multiGet.res.found <=> MultiHits # {}
        /\ MultiHits # {} =>
              LET first == CHOOSE i \in MultiHits : \A j \in MultiHits : i <= j
              IN /\ multiGet.res = Get(multi[first], multiGet.path)
                 /\ multiGet.res = Get(MultiSource(SubSeq(multi, 1, first)), multiGet.path)
        /\ multi = <<>> => ~multiGet.res.found

\* C28: Get changes neither the segments of the path slice its caller
\* passed in nor the result the members are asked for: after the call the
\* slice holds what it held before.
C28_PathUnchanged ==
    multiGet.called => multiGet.after = multiGet.path

RECURSIVE StoredIn(_, _)
\* what the map m holds at the path, read key by key in lower case
StoredIn(m, path) ==
    LET k == ToLower(Head(path))
    IN IF k \notin DOMAIN m THEN NotFound
       ELSE IF Len(path) = 1 THEN [val |-> m[k], found |-> TRUE]
       ELSE IF m[k].kind # "map" THEN NotFound
       ELSE StoredIn(m[k].m, Tail(path))

RECURSIVE StoredAt(_, _)
\* what a member of the MultiSource holds at the path
StoredAt(source, path) ==
    IF source.type = "map" THEN StoredIn(source.Map, path)
    ELSE StoredAt(source.Source, source.Prefix \o path)

\* what the first member that has the path holds there
Stored(path) ==
    LET holders == {i \in 1..Len(multi) : StoredAt(multi[i], path).found}
    IN IF holders = {} THEN NotFound
       ELSE StoredAt(multi[CHOOSE i \in holders : \A j \in holders : i <= j], path)

\* C23: when the value found for the path is a string ${p}, Get returns the
\* value stored at the path p (lower-cased, split at "_") in any of the
\* Sources, whatever their order, and the string ${p} itself, found, when
\* no Source has p.
C23_ReferenceResolved ==
    (multiGet.called /\ IsReference(Stored(multiGet.path).val)) =>
        LET referred == Stored(ReferencePath(Stored(multiGet.path).val))
        IN /\ multiGet.res.found
           /\ (referred.found /\ ~IsReference(referred.val)) =>
                 multiGet.res.val = referred.val
           /\ ~referred.found => multiGet.res.val = Stored(multiGet.path).val

RECURSIVE Refers(_, _, _)
\* following references from the value v for at most n lookups reaches the
\* reference w
Refers(v, w, n) ==
    /\ n > 0
    /\ IsReference(v)
    /\ LET t == Stored(ReferencePath(v))
       IN t.found /\ (t.val = w \/ Refers(t.val, w, n - 1))

\* C24: when the references form a cycle, Get returns the first value found
\* for the path as it is, and reports it found.
C24_CycleReturnsFirstValue ==
    (multiGet.called /\ Refers(Stored(multiGet.path).val, Stored(multiGet.path).val, 3)) =>
        multiGet.res = [val |-> Stored(multiGet.path).val, found |-> TRUE]

\* the maps given to NewMapSource: the tree of TestPrefixSource, the same
\* tree with upper-case keys, keys that collide once lower-cased (flat and
\* nested), leaves only, two keys in mixed case that collide, and the empty
\* map
MapInputs ==
    {<<"a">> :> RawMap(<<"a", "a">> :> RawBool(TRUE))
       @@ <<"b">> :> RawMap(<<"b", "b">> :> RawMap(<<"b", "b", "b">> :> RawBool(TRUE))),
     <<"A">> :> RawMap(<<"A", "a">> :> RawBool(TRUE))
       @@ <<"B">> :> RawMap(<<"B", "B">> :> RawMap(<<"b", "b", "b">> :> RawNil)),
     <<"A">> :> RawString(<<"1">>) @@ <<"a">> :> RawString(<<"2">>),
     <<"A">> :> RawMap(<<"b">> :> RawString(<<"1">>))
       @@ <<"a">> :> RawMap(<<"B">> :> RawString(<<"2">>)),
     <<"a">> :> RawString(<<"x">>) @@ <<"b">> :> RawNil,
     <<"A", "B">> :> RawString(<<"1">>) @@ <<"A", "b">> :> RawString(<<"2">>),
     EmptyMap}

\* the path segments and the Prefixes tried
MapSegments ==
    {<<"a">>, <<"A">>, <<"b">>, <<"B">>, <<"a", "a">>, <<"b", "b">>, <<"b", "b", "b">>}

MapPrefixes == {<<<<"a">>>>, <<<<"b">>>>, <<<<"b", "b">>>>, <<<<"B">>, <<"b", "b">>>>}

RECURSIVE Wrapped(_, _)
\* &PrefixSource{Source: ..., Prefix: p} around source, once for each Prefix
\* of prefixes, the first one innermost
Wrapped(source, prefixes) ==
    IF prefixes = <<>> THEN source
    ELSE Wrapped(PrefixSource(source, Head(prefixes)), Tail(prefixes))

MapInit ==
    /\ rawMap \in MapInputs
    /\ mapSrc = [built |-> FALSE, source |-> MapSource(EmptyMap)]
    /\ mapGet = [called |-> FALSE, prefixes |-> <<>>, path |-> <<>>, res |-> NotFound]
    /\ Idle({"setting", "env", "multi", "load", "component"})

\* s := NewMapSource(rawMap)
NewMapSourceCall ==
    /\ ~mapSrc.built
    /\ \E src \in NewMapSources(rawMap) : mapSrc' = [built |-> TRUE, source |-> src]
    /\ UNCHANGED <<rawMap, mapGet>>
    /\ UNCHANGED <<settingVars, envVars, multiVars, loadVars, compVars>>

\* p.Get(ctx, path...), p being s itself or PrefixSources around s; a Get
\* changes nothing in s, so every call is the first one
MapGetCall ==
    /\ mapSrc.built
    /\ ~mapGet.called
    /\ \E n \in 0..MaxWrap, k \in 1..MaxPath :
          \E prefixes \in ListsOfLen(MapPrefixes, n), path \in ListsOfLen(MapSegments, k) :
             mapGet' = [called |-> TRUE, prefixes |-> prefixes, path |-> path,
                        res |-> Get(Wrapped(mapSrc.source, prefixes), path)]
    /\ UNCHANGED <<rawMap, mapSrc>>
    /\ UNCHANGED <<settingVars, envVars, multiVars, loadVars, compVars>>

MapNext == NewMapSourceCall \/ MapGetCall

MapSpec == MapInit /\ [][MapNext]_vars

RECURSIVE Flat(_)
\* the Prefixes of nested wrappers as one Prefix, the innermost first
Flat(prefixes) == IF prefixes = <<>> THEN <<>> ELSE Head(prefixes) \o Flat(Tail(prefixes))

\* C11: PrefixSource.Get(path) returns exactly what the wrapped Source
\* returns for Prefix followed by path; with nested PrefixSources the
\* innermost wrapper's Prefix comes first, the same as one wrapper whose
\* Prefix is the Prefixes joined innermost first.
C11_PrefixFirst ==
    (mapGet.called /\ mapGet.prefixes # <<>>) =>
        LET outer == mapGet.prefixes[Len(mapGet.prefixes)]
            inner == SubSeq(mapGet.prefixes, 1, Len(mapGet.prefixes) - 1)
        IN /\ mapGet.res = Get(Wrapped(mapSrc.source, inner), outer \o mapGet.path)
           /\ mapGet.res = Get(mapSrc.source, Flat(mapGet.prefixes) \o mapGet.path)
           /\ mapGet.res = Get(PrefixSource(mapSrc.source, Flat(mapGet.prefixes)), mapGet.path)

\* Prefix [bb] around Prefix [b] finds b.bb.bbb, where neither the other
\* nesting order nor the path put first does
C11_Witness ==
    /\ mapGet.called
    /\ mapGet.prefixes = <<<<<<"b">>>>, <<<<"b", "b">>>>>>
    /\ mapGet.path = <<<<"b", "b", "b">>>>
    /\ mapGet.res = [val |-> RawBool(TRUE), found |-> TRUE]
    /\ ~Get(mapSrc.source, <<<<"b", "b">>, <<"b">>, <<"b", "b", "b">>>>).found
    /\ ~Get(mapSrc.source, <<<<"b", "b", "b">>, <<"b">>, <<"b", "b">>>>).found

RECURSIVE AllLower(_)
\* every key of m, at every nesting level, is its own lower case
AllLower(m) ==
    \A k \in DOMAIN m : ToLower(k) = k /\ (m[k].kind = "map" => AllLower(m[k].m))

\* C12: every key at every nesting level of the map a MapSource built by
\* NewMapSource owns is lower case, and Get returns the same (value, found)
\* for any two paths that differ only in letter case.
C12_LowerCaseKeys ==
    mapSrc.built =>
        /\ AllLower(mapSrc.source.Map)
        /\ (mapGet.called /\ mapGet.prefixes = <<>>) =>
              \A other \in ListsOfLen(MapSegments, Len(mapGet.path)) :
                 (\A i \in 1..Len(other) : ToLower(other[i]) = ToLower(mapGet.path[i]))
                    => Get(mapSrc.source, other) = mapGet.res

\* keys A and B.BB were given in upper case, and Get of [B, bb] found the
\* nested map under them
C12_Witness ==
    /\ mapSrc.built
    /\ <<"B">> \in DOMAIN rawMap
    /\ <<"B", "B">> \in DOMAIN rawMap[<<"B">>].m
    /\ mapGet.called
    /\ mapGet.prefixes = <<>>
    /\ mapGet.path = <<<<"B">>, <<"b", "b">>>>
    /\ mapGet.res = [val |-> RawMap(<<"b", "b", "b">> :> RawNil), found |-> TRUE]

RECURSIVE Descend(_, _)
\* where the keys lead from m through nested maps: [ok, m], ok false when a
\* key is missing or holds a value that is not a nested map
Descend(m, keys) ==
    IF keys = <<>> THEN [ok |-> TRUE, m |-> m]
    ELSE IF Head(keys) \notin DOMAIN m THEN [ok |-> FALSE, m |-> m]
    ELSE IF m[Head(keys)].kind # "map" THEN [ok |-> FALSE, m |-> m]
    ELSE Descend(m[Head(keys)].m, Tail(keys))

Colliding(m) ==
    {k \in DOMAIN m : \E other \in (DOMAIN m) \ {k} : ToLower(other) = ToLower(k)}

\* C30: NewMapSource is a deterministic function of its input map: every
\* call on the map yields the tree this call yielded, and of keys at the top
\* level that differ only in letter case exactly one lower-case key remains,
\* with the same value on every run.
C30_NewMapSourceDeterministic ==
    mapSrc.built =>
        /\ \A other \in NewMapSources(rawMap) : other = mapSrc.source
        /\ \A k \in Colliding(rawMap) :
              /\ ToLower(k) \in DOMAIN mapSrc.source.Map
              /\ \A other \in Colliding(rawMap) :
                    (ToLower(other) = ToLower(k) /\ other # ToLower(k))
                       => other \notin DOMAIN mapSrc.source.Map
              /\ \A other \in NewMapSources(rawMap) :
                    other.Map[ToLower(k)] = mapSrc.source.Map[ToLower(k)]

-----------------------------------------------------------------------------
(* The loader specification *)



\* the forests given to LoadGroups: flat, nested to three levels, with
\* sibling Groups, with two roots, with Settings of one name in several Groups
Forests ==
    {<<>>,
     <<SettingGroup(<<"A">>, <<>>, <<>>, <<SettingAt(<<"X">>, <<>>, "Int", 1), SettingAt(<<"Y">>, <<>>, "Int", 3), SettingAt(<<"Z">>, <<>>, "Int", 4)>>)>>,
     <<SettingGroup(<<"A">>, <<>>, <<>>, <<SettingAt(<<"X">>, <<>>, "Int", 1), SettingAt(<<"Z">>, <<>>, "String", 2), SettingAt(<<"Y">>, <<>>, "Int", 3), SettingAt(<<"X">>, <<>>, "Int", 4)>>)>>,
     <<SettingGroup(<<"A">>, <<>>,
          <<SettingGroup(<<"B">>, <<>>, <<>>, <<SettingAt(<<"X">>, <<>>, "Int", 3)>>)>>,
          <<SettingAt(<<"X">>, <<>>, "Int", 1)>>)>>,
     <<SettingGroup(<<"A">>, <<>>,
          <<SettingGroup(<<"B">>, <<>>, <<>>, <<SettingAt(<<"X">>, <<>>, "Int", 1)>>),
            SettingGroup(<<"A">>, <<>>, <<>>, <<SettingAt(<<"X">>, <<>>, "Int", 3)>>)>>,
          <<>>),
       SettingGroup(<<"B">>, <<>>, <<>>, <<SettingAt(<<"X">>, <<>>, "Int", 4)>>)>>,
     <<SettingGroup(<<"A">>, <<>>,
          <<SettingGroup(<<"B">>, <<>>,
               <<SettingGroup(<<"A">>, <<>>, <<>>, <<SettingAt(<<"X">>, <<>>, "Int", 3)>>)>>,
               <<SettingAt(<<"Y">>, <<>>, "String", 2)>>),
            SettingGroup(<<"A">>, <<>>, <<>>, <<SettingAt(<<"X">>, <<>>, "Int", 4)>>)>>,
          <<SettingAt(<<"X">>, <<>>, "Int", 1)>>)>>}

\* the values of the Settings before any load: pointer 2 is a *string, the others *int
InitialMem == [ptr \in 1..4 |-> IF ptr = 2 THEN <<"d">> ELSE 7]

LoadEnvEntries ==
    {<<"A", "_", "X", "=", "1">>,
     <<"A", "_", "X", "=", "x">>,
     <<"A", "_", "Y", "=", "x">>,
     <<"A", "_", "Z", "=", "3">>,
     <<"A", "_", "B", "_", "X", "=", "2">>,
     <<"A", "_", "B", "_", "Y", "=", "t">>,
     <<"A", "_", "B", "_", "A", "_", "X", "=", "3">>,
     <<"A", "_", "A", "_", "X", "=", "x">>,
     <<"B", "_", "X", "=", "2">>,
     <<"X", "=", "1">>}

\* the Sources given to the loader: what NewEnvSource makes of up to MaxEnv entries
LoadSources ==
    UNION {{r.source : r \in NewEnvSources(l)} :
              l \in UNION {ListsOfLen(LoadEnvEntries, n) : n \in 0..MaxEnv}}

LoadInit ==
    /\ forest \in Forests
    /\ heap = InitialMem
    /\ backing \in LoadSources
    /\ loadRes = NoLoad
    /\ Idle({"setting", "env", "multi", "component", "map"})

\* a loader call's record, given what the call returned
LoadRecord(op, src, settings, r, before) ==
    [op |-> op, src |-> src, settings |-> settings, err |-> r.err, log |-> r.log,
     before |-> before, after |-> r.mem]

\* Load(ctx, s, settings) on the Settings of a root Group, with the Source
\* as given or scoped to the Group by a PrefixSource
LoadCall ==
    /\ \E i \in 1..Len(forest) :
          \E src \in {backing, PrefixSource(backing, <<forest[i].NameValue>>)} :
             loadRes' = LoadRecord("Load", src, forest[i].SettingValues,
                                   Load(src, forest[i].SettingValues, heap), heap)
    /\ heap' = loadRes'.after
    /\ UNCHANGED <<forest, backing>>
    /\ UNCHANGED <<settingVars, envVars, multiVars, mapVars, compVars>>

\* LoadGroups(ctx, s, groups)
LoadGroupsCall ==
    /\ loadRes' = LoadRecord("LoadGroups", backing, <<>>, LoadGroups(backing, forest, heap), heap)
    /\ heap' = loadRes'.after
    /\ UNCHANGED <<forest, backing>>
    /\ UNCHANGED <<settingVars, envVars, multiVars, mapVars, compVars>>

LoadNext == LoadCall \/ LoadGroupsCall

LoadSpec == LoadInit /\ [][LoadNext]_vars

RECURSIVE SettingsUnder(_, _)
\* every Setting of Group g and of the Groups below it, with the names of
\* its ancestor Groups (root first) followed by its own name
SettingsUnder(g, ancestors) ==
    LET here == Append(ancestors, g.NameValue)
    IN {[st |-> g.SettingValues[i], path |-> Append(here, g.SettingValues[i].NameValue)] :
            i \in 1..Len(g.SettingValues)}
       \cup UNION {SettingsUnder(g.GroupValues[i], here) : i \in 1..Len(g.GroupValues)}

AllSettings == UNION {SettingsUnder(forest[i], <<>>) : i \in 1..Len(forest)}

GetsOf(ptr) == {i \in 1..Len(loadRes.log) :
                   loadRes.log[i].op = "Get" /\ loadRes.log[i].ptr = ptr}

SetValuesOf(ptr) == {i \in 1..Len(loadRes.log) :
                        loadRes.log[i].op = "SetValue" /\ loadRes.log[i].ptr = ptr}

\* C2: after LoadGroups succeeds, every Setting X reached through ancestor
\* Groups G1..Gn was looked up once, at exactly the path G1,...,Gn,X, whatever
\* sibling subtrees exist, and holds the Source's value at that path when one
\* is found there.
C2_LoadGroupsPaths ==
    (loadRes.op = "LoadGroups" /\ loadRes.err = NoError) =>
        \A e \in AllSettings :
            /\ Cardinality(GetsOf(e.st.ptr)) = 1
            /\ \A i \in GetsOf(e.st.ptr) : loadRes.log[i].seen = e.path
            /\ LET r == Get(backing, e.path)
               IN r.found =>
                    heap[e.st.ptr] = SetValue(e.st.variant, loadRes.before[e.st.ptr], r.val).val

\* a Setting three Groups deep, beside a sibling subtree, took the Source's value
C2_Witness ==
    /\ loadRes.op = "LoadGroups"
    /\ loadRes.err = NoError
    /\ \E e \in AllSettings :
          /\ Len(e.path) = 4
          /\ Get(backing, e.path).found
          /\ heap[e.st.ptr] # loadRes.before[e.st.ptr]
    /\ \E i \in 1..Len(forest) : Len(forest[i].GroupValues) = 2

\* the result of the lookup Load makes for the i-th Setting of its list
LookupOf(i) == Get(loadRes.src, <<loadRes.settings[i].NameValue>>)

\* what SetValue answers for the i-th Setting of the list, given the lookup's value
CastOf(i) ==
    SetValue(loadRes.settings[i].variant, loadRes.before[loadRes.settings[i].ptr],
             LookupOf(i).val)

\* the Settings of the list whose value is found and is rejected by SetValue
Rejected == {i \in 1..Len(loadRes.settings) : LookupOf(i).found /\ CastOf(i).err # NoError}

EventsOf(ptr) == {i \in 1..Len(loadRes.log) : loadRes.log[i].ptr = ptr}

\* C8: Load stops at the first Setting whose SetValue fails. Its error names
\* that Setting; the Settings before it whose value was found hold the loaded
\* value; the Settings after it are neither looked up nor changed.
C8_LoadStopsAtFirstFailure ==
    (loadRes.op = "Load" /\ Rejected # {}) =>
        LET k == CHOOSE i \in Rejected : \A j \in Rejected : i <= j
        IN /\ loadRes.err = LoadSettingError(loadRes.settings[k].NameValue, CastOf(k).err)
           /\ \A i \in 1..(k - 1) :
                 LookupOf(i).found => heap[loadRes.settings[i].ptr] = CastOf(i).val
           /\ \A i \in (k + 1)..Len(loadRes.settings) :
                 /\ EventsOf(loadRes.settings[i].ptr) = {}
                 /\ heap[loadRes.settings[i].ptr] = loadRes.before[loadRes.settings[i].ptr]

\* a Load failed between a Setting already loaded and a Setting with a value waiting
C8_Witness ==
    /\ loadRes.op = "Load"
    /\ \E k \in Rejected :
          /\ \E i \in 1..(k - 1) :
                /\ LookupOf(i).found
                /\ heap[loadRes.settings[i].ptr] # loadRes.before[loadRes.settings[i].ptr]
          /\ \E i \in (k + 1)..Len(loadRes.settings) : LookupOf(i).found

\* the Settings a loader call was given, each with the path of its lookup
GivenSettings ==
    IF loadRes.op = "Load"
    THEN {[st |-> loadRes.settings[i],
           path |-> BasePath(loadRes.src, <<loadRes.settings[i].NameValue>>)] :
              i \in 1..Len(loadRes.settings)}
    ELSE AllSettings

\* C9: a Setting whose lookup finds nothing keeps its value and sees no
\* SetValue, and the miss is no error: a load in which no SetValue failed
\* returns nil.
C9_MissIsSuccess ==
    (loadRes.op # "none") =>
        /\ \A e \in GivenSettings :
              ~Get(backing, e.path).found =>
                  /\ heap[e.st.ptr] = loadRes.before[e.st.ptr]
                  /\ SetValuesOf(e.st.ptr) = {}
        /\ (\A e \in GivenSettings :
               LET r == Get(backing, e.path)
               IN r.found => SetValue(e.st.variant, loadRes.before[e.st.ptr], r.val).err = NoError)
              => loadRes.err = NoError

\* a load looked a Setting up, found nothing, and went on to load a later one
C9_Witness ==
    /\ loadRes.op # "none"
    /\ loadRes.err = NoError
    /\ \E i \in 1..Len(loadRes.log) :
          /\ loadRes.log[i].op = "Get"
          /\ ~Get(backing, loadRes.log[i].seen).found
          /\ \E j \in (i + 1)..Len(loadRes.log) : loadRes.log[j].op = "SetValue"

RECURSIVE GroupPaths(_, _, _)
\* the paths of groups[i..] and of every Group below them, one entry for
\* each Group
GroupPaths(groups, ancestors, i) ==
    IF i > Len(groups) THEN <<>>
    ELSE LET here == Append(ancestors, groups[i].NameValue)
         IN <<here>> \o GroupPaths(groups[i].GroupValues, here, 1)
                     \o GroupPaths(groups, ancestors, i + 1)

\* the calls of Load that LoadGroups made
LoadsMade == {i \in 1..Len(loadRes.log) : loadRes.log[i].op = "Load"}

\* no value the Source holds for a Setting of the forest is rejected
NoCastFails ==
    \A e \in AllSettings :
       LET r == Get(backing, e.path)
       IN r.found => SetValue(e.st.variant, loadRes.before[e.st.ptr], r.val).err = NoError

\* C25: when no Setting fails to cast, LoadGroups returns nil and has called
\* Load exactly once for every Group of the forest, roots, children and
\* deeper descendants alike; when a Load fails, LoadGroups returns an error
\* naming that Group and the failed SetValue is the last thing it did.
C25_EveryGroupLoadedOnce ==
    (loadRes.op = "LoadGroups") =>
        LET paths == GroupPaths(forest, <<>>, 1)
        IN /\ NoCastFails =>
                 /\ loadRes.err = NoError
                 /\ Cardinality(LoadsMade) = Len(paths)
                 /\ \A k \in 1..Len(paths) :
                       Cardinality({i \in LoadsMade : loadRes.log[i].path = paths[k]})
                          = Cardinality({j \in 1..Len(paths) : paths[j] = paths[k]})
           /\ loadRes.err # NoError =>
                 LET k == CHOOSE i \in LoadsMade : \A j \in LoadsMade : j <= i
                     final == loadRes.log[Len(loadRes.log)]
                 IN /\ loadRes.err.msg = "failed to load group"
                    /\ loadRes.err.name = loadRes.log[k].path[Len(loadRes.log[k].path)]
                    /\ final.op = "SetValue"
                    /\ \E e \in AllSettings :
                          /\ e.st.ptr = final.ptr
                          /\ SubSeq(e.path, 1, Len(e.path) - 1) = loadRes.log[k].path
                          /\ loadRes.err.cause.name = e.st.NameValue
                    /\ Cardinality(LoadsMade) <= Len(paths)
                    /\ \A i, j \in LoadsMade :
                          (i # j /\ loadRes.log[i].path = loadRes.log[j].path) =>
                             Cardinality({x \in 1..Len(paths) : paths[x] = loadRes.log[i].path}) > 1

\* a forest of four Groups on three levels with siblings, every one loaded
C25_Witness ==
    /\ loadRes.op = "LoadGroups"
    /\ loadRes.err = NoError
    /\ Len(GroupPaths(forest, <<>>, 1)) = 4
    /\ Cardinality(LoadsMade) = 4
    /\ \E i \in LoadsMade : Len(loadRes.log[i].path) = 3
    /\ \E i \in 1..Len(loadRes.log) : loadRes.log[i].op = "SetValue"

-----------------------------------------------------------------------------
(* The component specification *)


\* Value string, at the *string address
FieldV == StructField(<<"V">>, FALSE, <<>>, TRUE, BasicValue("string", FALSE, FALSE, FALSE, 2))
\* N int
FieldN == StructField(<<"N">>, FALSE, <<>>, TRUE, BasicValue("int", FALSE, FALSE, FALSE, 1))
\* X chan int
FieldChan == StructField(<<"X">>, FALSE, <<>>, TRUE, BasicValue("chan", FALSE, FALSE, FALSE, 4))

Conf(pointer, isNil, namer, fields) ==
    StructValue(<<"C", "f">>, pointer, isNil, namer, NoMethod, fields)

\* the values Settings() returns: &Cf{...} with one field, two fields, a
\* nested *Sb, a Name() method, an embedded Sb, an unsupported field; a nil
\* *Cf; a Cf that is no pointer; an int
Confs ==
    {Conf(TRUE, FALSE, NoMethod, <<FieldV>>),
     Conf(TRUE, FALSE, NoMethod, <<FieldV, FieldN>>),
     Conf(TRUE, FALSE, NoMethod,
          <<FieldN, StructField(<<"S", "b">>, FALSE, <<>>, TRUE,
                        StructValue(<<"S", "b">>, TRUE, FALSE, NoMethod, NoMethod, <<FieldV>>))>>),
     Conf(TRUE, FALSE, Method(<<"A">>), <<FieldV>>),
     Conf(TRUE, FALSE, NoMethod,
          <<StructField(<<"S", "b">>, TRUE, <<>>, TRUE,
                        StructValue(<<"S", "b">>, FALSE, FALSE, NoMethod, NoMethod, <<FieldN>>)),
            FieldV>>),
     Conf(TRUE, FALSE, NoMethod, <<FieldV, FieldChan>>),
     Conf(TRUE, TRUE, NoMethod, <<>>),
     Conf(FALSE, FALSE, NoMethod, <<FieldV>>),
     BasicValue("int", FALSE, FALSE, FALSE, 1)}

\* the static type of a value Settings() returns
ConfType(conf) ==
    IF conf.kind = "struct"
    THEN IF conf.pointer THEN PtrTo("Cf") ELSE StructType("Cf")
    ELSE IntType

NewIns ==
    {<<ContextType, PtrTo("Cf")>>,
     <<PtrTo("Cf")>>,
     <<ContextType, IntType, PtrTo("Cf")>>,
     <<IntType, PtrTo("Cf")>>,
     <<ContextType, IntType>>,
     <<EmptyInterfaceType, EmptyInterfaceType>>}

NewOuts ==
    {<<PtrTo("testItem"), ErrorType>>,
     <<ErrorType>>,
     <<PtrTo("testItem"), IntType, ErrorType>>,
     <<PtrTo("testItem"), IntType>>,
     <<PtrTo("testItem"), LocalErrorType>>,
     <<PtrTo("testItem"), PtrTo("errorString")>>,
     <<TestInterfaceType, ErrorType>>,
     <<IntType, ErrorType>>}

\* every shape of the two methods, around the configuration of the tests
ShapeComponents ==
    {[methods |-> methods,
      Settings |-> Signature(sIn, <<PtrTo("Cf")>> \o sExtra),
      New |-> Signature(nIn, nOut),
      conf |-> Conf(TRUE, FALSE, NoMethod, <<FieldV>>),
      behaviour |-> "build"] :
        methods \in SUBSET {"Settings", "New"},
        sIn \in {<<>>, <<ContextType>>},
        sExtra \in {<<>>, <<ErrorType>>},
        nIn \in NewIns,
        nOut \in NewOuts}

\* components whose methods have the two-argument, two-return shape, with
\* every configuration and every behaviour of New
RunComponents ==
    UNION {
        {[methods |-> {"Settings", "New"},
          Settings |-> Signature(<<>>, <<ConfType(conf)>>),
          New |-> Signature(nIn, nOut),
          conf |-> conf,
          behaviour |-> behaviour] :
            nIn \in {<<ContextType, ConfType(conf)>>, <<EmptyInterfaceType, EmptyInterfaceType>>},
            nOut \in {<<PtrTo("testItem"), ErrorType>>, <<TestInterfaceType, ErrorType>>,
                      <<IntType, ErrorType>>, <<PtrTo("testItem"), LocalErrorType>>},
            behaviour \in {"build", "nil", "fail"}}
        : conf \in Confs}

\* nil, a testItem, a nil *testItem, new(testItem), new(testInterface), new(string)
Destinations ==
    {Destination("nil", TRUE, EmptyInterfaceType),
     Destination("struct", FALSE, StructType("testItem")),
     Destination("ptr", TRUE, StructType("testItem")),
     Destination("ptr", FALSE, StructType("testItem")),
     Destination("ptr", FALSE, TestInterfaceType),
     Destination("ptr", FALSE, StringType)}

TestString == <<"t", "e", "s", "t">>

ComponentMaps ==
    {EmptyMap,
     <<"C", "f">> :> RawMap(<<"V">> :> RawString(TestString)),
     <<"c", "f">> :> RawMap(<<"v">> :> RawString(<<"t">>) @@ <<"n">> :> RawString(<<"x">>)),
     <<"c", "f">> :> RawMap(<<"v">> :> RawString(TestString) @@ <<"n">> :> RawInt(3)
                            @@ <<"s", "b">> :> RawMap(<<"v">> :> RawString(<<"1">>))),
     <<"a">> :> RawMap(<<"v">> :> RawString(<<"1">>)) @@ <<"v">> :> RawString(TestString),
     <<"c", "f">> :> RawString(TestString)}

ComponentSources == UNION {NewMapSources(m) : m \in ComponentMaps}

ComponentInit ==
    /\ component \in ShapeComponents \cup RunComponents
    /\ target \in Destinations
    /\ pointee = [type |-> target.elem, nil |-> TRUE, val |-> <<>>]
    /\ compRes = NoComp
    /\ converted = [called |-> FALSE, v |-> NilValue, res |-> ConvertOk(NoGroup)]
    /\ heap = InitialMem
    /\ backing \in ComponentSources
    /\ forest = <<>>
    /\ loadRes = NoLoad
    /\ Idle({"setting", "env", "multi", "map"})

\* VerifyComponent(v)
VerifyComponentCall ==
    /\ compRes' = [op |-> "VerifyComponent",
                   out |-> Outcome(<<"VerifyComponent">>, VerifyComponent(component), FALSE, heap),
                   before |-> heap]
    /\ UNCHANGED <<component, target, pointee, converted>>
    /\ UNCHANGED <<settingVars, envVars, multiVars, mapVars, loadVars>>

\* NewComponent(ctx, s, v, destination)
NewComponentCall ==
    /\ compRes' = [op |-> "NewComponent",
                   out |-> NewComponent(backing, component, target, heap),
                   before |-> heap]
    /\ heap' = compRes'.out.mem
    /\ pointee' = IF compRes'.out.stored THEN compRes'.out.nV ELSE pointee
    /\ UNCHANGED <<component, target, converted>>
    /\ UNCHANGED <<forest, backing, loadRes>>
    /\ UNCHANGED <<settingVars, envVars, multiVars, mapVars>>

\* g, err := GroupFromComponent(v)
GroupFromComponentCall ==
    /\ converted' = [called |-> TRUE, v |-> component.conf,
                     res |-> GroupFromComponent(backing, component, heap).res]
    /\ compRes' = [op |-> "GroupFromComponent",
                   out |-> GroupFromComponent(backing, component, heap).out,
                   before |-> heap]
    /\ heap' = compRes'.out.mem
    /\ UNCHANGED <<component, target, pointee>>
    /\ UNCHANGED <<forest, backing, loadRes>>
    /\ UNCHANGED <<settingVars, envVars, multiVars, mapVars>>

ComponentNext == VerifyComponentCall \/ NewComponentCall \/ GroupFromComponentCall

ComponentSpec == ComponentInit /\ [][ComponentNext]_vars

\* the name of the Group a configuration value converts to
GroupName(conf) == IF conf.namer.has THEN conf.namer.text ELSE conf.typeName

\* the fields of a configuration value that hold a Setting themselves
OwnSettings(conf) == {x \in 1..Len(conf.fields) : conf.fields[x].value.kind = "basic"}

\* what the field x of the configuration holds once the value found (or not)
\* at [group name, field name] is loaded over its default
LoadedField(conf, x) ==
    LET f == conf.fields[x]
        r == Get(backing, <<GroupName(conf), f.Name>>)
    IN IF r.found
       THEN SetValue(VariantOfKind[f.value.goKind], compRes.before[f.value.ptr], r.val).val
       ELSE compRes.before[f.value.ptr]

Succeeded ==
    /\ compRes.op = "NewComponent"
    /\ ~compRes.out.panic
    /\ compRes.out.err = NoError

\* C5: when NewComponent succeeds, New was called with the configuration
\* value Settings() returned; every field of it holds the Source's value at
\* [group name, field name] if the Source has one and its default otherwise;
\* and the destination points to the result New built from it.
C5_NewComponentSuccess ==
    Succeeded =>
        /\ compRes.out.smOut = component.conf
        /\ compRes.out.arg = compRes.out.smOut
        /\ \A x \in OwnSettings(component.conf) :
              heap[component.conf.fields[x].value.ptr] = LoadedField(component.conf, x)
        /\ pointee.val = New(component, component.conf, heap).val
        /\ pointee.nil = New(component, component.conf, heap).nil
        /\ pointee.type = target.elem

\* a success that loaded Value "test" from the Source, left another field at
\* its default, and stored a result holding "test"
C5_Witness ==
    /\ Succeeded
    /\ ~pointee.nil
    /\ \E x, y \in OwnSettings(component.conf) :
          /\ component.conf.fields[x].value.goKind = "string"
          /\ Get(backing, <<GroupName(component.conf), component.conf.fields[x].Name>>).found
          /\ heap[component.conf.fields[x].value.ptr] = TestString
          /\ compRes.before[component.conf.fields[x].value.ptr] # TestString
          /\ pointee.val[component.conf.fields[x].value.ptr] = TestString
          /\ ~Get(backing, <<GroupName(component.conf), component.conf.fields[y].Name>>).found

FixedOrder == <<"destination", "VerifyComponent", "Settings", "Convert", "LoadGroups", "New">>

\* the outcome NewComponent must have once Convert has returned c: the error
\* of Convert or of LoadGroups with no later step, or all six steps
EndsAfter(c, out) ==
    IF c.err # NoError
    THEN out.err = c.err /\ out.steps = SubSeq(FixedOrder, 1, 4)
    ELSE IF LoadGroups(backing, <<c.g>>, compRes.before).err # NoError
    THEN /\ out.err = LoadGroups(backing, <<c.g>>, compRes.before).err
         /\ out.steps = SubSeq(FixedOrder, 1, 5)
    ELSE out.steps = FixedOrder

\* C6: NewComponent takes its steps in the fixed order destination check,
\* VerifyComponent, Settings(), Convert, LoadGroups, New, each once, and the
\* first step that fails ends the call with that step's error: a nil or
\* non-pointer destination before Settings() or New, and no New after a
\* failed verification, conversion or load.
C6_FailFastOrder ==
    (compRes.op = "NewComponent") =>
        /\ compRes.out.panic => compRes.out.steps = FixedOrder
        /\ IF target.kind # "ptr" \/ target.isNil
           THEN compRes.out.err # NoError /\ compRes.out.steps = SubSeq(FixedOrder, 1, 1)
           ELSE IF VerifyComponent(component) # NoError
           THEN /\ compRes.out.err = VerifyComponent(component)
                /\ compRes.out.steps = SubSeq(FixedOrder, 1, 2)
           ELSE EndsAfter(Convert(component.conf), compRes.out)

\* the contract of a component, condition by condition
Contract(v) ==
    /\ "Settings" \in v.methods
    /\ "New" \in v.methods
    /\ Len(v.Settings.In) = 0
    /\ Len(v.Settings.Out) = 1
    /\ Len(v.New.In) = 2
    /\ Len(v.New.Out) = 2
    /\ ConvertibleTo(BackgroundType, v.New.In[1])
    /\ ConvertibleTo(v.Settings.Out[1], v.New.In[2])
    /\ v.New.Out[2] = ErrorType

\* C7: VerifyComponent returns nil exactly when the object has a Settings
\* method with no argument and one return and a New method with two arguments
\* and two returns, the first argument accepting a context, the second
\* accepting what Settings returns, the second return being the error type;
\* any single violation yields an error.
C7_VerifyExactlyContract ==
    (compRes.op = "VerifyComponent") =>
        ((compRes.out.err = NoError) <=> Contract(component))

\* what a GroupFromComponent step must give for a component that keeps the
\* contract: Settings() called once, no load and no New, and the result of
\* Convert on the value Settings() returned, its Settings at the addresses
\* of that value's fields
GroupOfSettings(out, res) ==
    /\ Cardinality({i \in 1..Len(out.steps) : out.steps[i] = "Settings"}) = 1
    /\ out.smOut = component.conf
    /\ res = Convert(component.conf)
    /\ (~res.panic /\ res.err = NoError) =>
          \A x \in OwnSettings(component.conf) :
             \E i \in 1..Len(res.g.SettingValues) :
                /\ res.g.SettingValues[i].NameValue = component.conf.fields[x].Name
                /\ res.g.SettingValues[i].ptr = component.conf.fields[x].value.ptr

\* C22: GroupFromComponent verifies the component, calls Settings() once
\* and returns the Group converted from its result, the Settings holding
\* the defaults: no value is loaded from a Source and New is not called;
\* for a component that breaks the contract it returns the verification
\* error and does not call Settings().
C22_GroupFromComponentOnly ==
    [][(compRes'.op = "GroupFromComponent") =>
          /\ heap' = heap
          /\ pointee' = pointee
          /\ \A i \in 1..Len(compRes'.out.steps) :
                compRes'.out.steps[i] \notin {"LoadGroups", "New"}
          /\ IF Contract(component)
             THEN GroupOfSettings(compRes'.out, converted'.res)
             ELSE /\ compRes'.out.steps = <<"VerifyComponent">>
                  /\ compRes'.out.err = VerifyComponent(component)
                  /\ compRes'.out.err # NoError
                  /\ converted'.res.g = NoGroup]_vars

\* C15: when the component's New returns a non-nil error, NewComponent
\* returns that same error value, unwrapped, and leaves what the destination
\* points to as it was before the call.
C15_NewErrorPropagated ==
    [][(/\ compRes'.op = "NewComponent"
        /\ compRes'.out.steps = FixedOrder
        /\ component.New.Out[2] = ErrorType
        /\ New(component, compRes'.out.arg, heap').err # NoError)
          => /\ ~compRes'.out.panic
             /\ compRes'.out.err = New(component, compRes'.out.arg, heap').err
             /\ pointee' = pointee]_vars

\* a NewComponent that came to New, whose New failed, returned New's error
C15_Witness ==
    /\ compRes.op = "NewComponent"
    /\ compRes.out.steps = FixedOrder
    /\ component.New.Out[2] = ErrorType
    /\ component.behaviour = "fail"
    /\ compRes.out.err = NewFailed
    /\ ~compRes.out.stored

\* the type of what New produced, as NewComponent compares it: the pointee
\* type of a pointer result, the result type itself otherwise
ProducedType(v) == IF v.New.Out[1].kind = "ptr" THEN ElemType(v.New.Out[1]) ELSE v.New.Out[1]

\* C16: when New succeeds, NewComponent stores the produced result in the
\* destination and returns nil whenever the produced type is convertible to
\* the type the destination points to, and returns a conversion error,
\* leaving the destination unchanged, exactly when it is not convertible.
C16_StoredWhenConvertible ==
    [][(/\ compRes'.op = "NewComponent"
        /\ compRes'.out.steps = FixedOrder
        /\ component.New.Out[2] = ErrorType
        /\ New(component, compRes'.out.arg, heap').err = NoError)
          => /\ ~compRes'.out.panic
             /\ IF ConvertibleTo(ProducedType(component), target.elem)
                THEN /\ compRes'.out.err = NoError
                     /\ pointee'.val = New(component, compRes'.out.arg, heap').val
                     /\ pointee'.nil = New(component, compRes'.out.arg, heap').nil
                ELSE /\ compRes'.out.err = [msg |-> "cannot convert"]
                     /\ pointee' = pointee]_vars

-----------------------------------------------------------------------------
(* The Convert specification *)

\* the field types tried: those of TestConvert, the other Setting variants
\* of setting.go, and a chan
FieldKinds ==
    DOMAIN VariantOfKind \cup {"[]bool", "map[string]string", "chan"}

\* &struct{ V T }{...} and &struct{ V *T }{...}, with and without a
\* description tag, for every field type
KindStructs ==
    {StructValue(<<"S", "t">>, TRUE, FALSE, NoMethod, NoMethod,
                 <<StructField(<<"V">>, FALSE, d, TRUE, BasicValue(k, FALSE, p, FALSE, 1))>>) :
        k \in FieldKinds, d \in {<<>>, <<"d">>}, p \in BOOLEAN}

\* In{V string}, the struct nested in the fields below, at address ptr
In(pointer, isNil, namer, ptr) ==
    StructValue(<<"I", "n">>, pointer, isNil, namer, NoMethod,
                <<StructField(<<"V">>, FALSE, <<>>, TRUE,
                              BasicValue("string", FALSE, FALSE, FALSE, ptr))>>)

\* the fields a struct is put together from: V string; N int; an embedded
\* *Sb and an embedded Sb with a field W; I *In; J In; a nil K *In; X chan;
\* M *In with a Name() method; P *Pa whose own field is a chan; Q *Pa whose
\* own field is a nil *In; an unexported u string; T *time.Time; a nil
\* embedded *Sb; W int, named like the field of Sb; L *In, of the type of I
FieldOptions ==
    {FieldV, FieldN, FieldChan,
     StructField(<<"S", "b">>, TRUE, <<>>, TRUE,
                 StructValue(<<"S", "b">>, TRUE, FALSE, NoMethod, NoMethod,
                             <<StructField(<<"W">>, FALSE, <<"d">>, TRUE,
                                           BasicValue("string", FALSE, FALSE, FALSE, 3))>>)),
     StructField(<<"S", "b">>, TRUE, <<>>, TRUE,
                 StructValue(<<"S", "b">>, FALSE, FALSE, NoMethod, NoMethod,
                             <<StructField(<<"W">>, FALSE, <<>>, TRUE,
                                           BasicValue("bool", FALSE, FALSE, FALSE, 3))>>)),
     StructField(<<"S", "b">>, TRUE, <<>>, TRUE,
                 StructValue(<<"S", "b">>, TRUE, TRUE, NoMethod, NoMethod, <<>>)),
     StructField(<<"I">>, FALSE, <<>>, TRUE, In(TRUE, FALSE, NoMethod, 5)),
     StructField(<<"J">>, FALSE, <<>>, TRUE, In(FALSE, FALSE, NoMethod, 6)),
     StructField(<<"K">>, FALSE, <<>>, TRUE, In(TRUE, TRUE, NoMethod, 0)),
     StructField(<<"M">>, FALSE, <<>>, TRUE, In(TRUE, FALSE, Method(<<"T">>), 7)),
     StructField(<<"P">>, FALSE, <<>>, TRUE,
                 StructValue(<<"P", "a">>, TRUE, FALSE, NoMethod, NoMethod, <<FieldChan>>)),
     StructField(<<"Q">>, FALSE, <<>>, TRUE,
                 StructValue(<<"P", "a">>, TRUE, FALSE, NoMethod, NoMethod,
                             <<StructField(<<"K">>, FALSE, <<>>, TRUE,
                                           In(TRUE, TRUE, NoMethod, 0))>>)),
     StructField(<<"W">>, FALSE, <<>>, TRUE, BasicValue("int", FALSE, FALSE, FALSE, 10)),
     StructField(<<"L">>, FALSE, <<>>, TRUE, In(TRUE, FALSE, NoMethod, 11)),
     StructField(<<"u">>, FALSE, <<>>, FALSE, BasicValue("string", FALSE, FALSE, FALSE, 8)),
     StructField(<<"T">>, FALSE, <<>>, TRUE, BasicValue("time.Time", FALSE, TRUE, FALSE, 9))}

\* &St{...} with up to MaxFields fields of different names
FieldStructs ==
    {StructValue(<<"S", "t">>, TRUE, FALSE, NoMethod, NoMethod, fields) :
        fields \in {l \in UNION {ListsOfLen(FieldOptions, n) : n \in 0..MaxFields} :
                       \A i, j \in 1..Len(l) : i # j => l[i].Name # l[j].Name}}

\* what Convert is given: nil, a nil *St, a string, a *string, St{} by value,
\* &St{} with a Name(), with a Description() and with both, &G[t.D]{} of the
\* generic type G[T any] struct{ V string }, whose Type.Name() is "G[t.D]",
\* &St{V string, Sb{W bool, Y int}, N int} with Sb embedded between two
\* fields, and the structs above
ConvertInputs ==
    {NilValue,
     StructValue(<<"S", "t">>, TRUE, FALSE, Method(<<"T">>), NoMethod, <<FieldV>>),
     StructValue(<<"S", "t">>, TRUE, FALSE, NoMethod, Method(<<"d">>), <<FieldV>>),
     StructValue(<<"G", "[", "t", ".", "D", "]">>, TRUE, FALSE, NoMethod, NoMethod, <<FieldV>>),
     StructValue(<<"S", "t">>, TRUE, FALSE, NoMethod, NoMethod,
                 <<FieldV,
                   StructField(<<"S", "b">>, TRUE, <<>>, TRUE,
                               StructValue(<<"S", "b">>, FALSE, FALSE, NoMethod, NoMethod,
                                           <<StructField(<<"W">>, FALSE, <<>>, TRUE,
                                                         BasicValue("bool", FALSE, FALSE, FALSE, 3)),
                                             StructField(<<"Y">>, FALSE, <<>>, TRUE,
                                                         BasicValue("int", FALSE, FALSE, FALSE, 4))>>)),
                   FieldN>>),
     StructValue(<<"S", "t">>, TRUE, TRUE, NoMethod, NoMethod, <<>>),
     BasicValue("string", FALSE, FALSE, FALSE, 1),
     BasicValue("string", FALSE, TRUE, FALSE, 1),
     StructValue(<<"S", "t">>, FALSE, FALSE, NoMethod, NoMethod, <<FieldV>>),
     StructValue(<<"S", "t">>, TRUE, FALSE, Method(<<"T">>), Method(<<"T">>), <<FieldV>>)}
    \cup KindStructs \cup FieldStructs

ConvertInit == Idle({"setting", "env", "multi", "map", "load", "component"})

\* g, err := Convert(v)
ConvertCall ==
    /\ ~converted.called
    /\ \E v \in ConvertInputs : converted' = [called |-> TRUE, v |-> v, res |-> Convert(v)]
    /\ UNCHANGED <<component, target, pointee, compRes>>
    /\ UNCHANGED <<settingVars, envVars, multiVars, mapVars, loadVars>>

ConvertNext == ConvertCall

ConvertSpec == ConvertInit /\ [][ConvertNext]_vars

RECURSIVE Flattened(_)
\* the fields of a struct with every embedded struct replaced by its fields
Flattened(fields) ==
    UNION {IF fields[x].Anonymous /\ fields[x].value.kind = "struct"
           THEN Flattened(fields[x].value.fields)
           ELSE {fields[x]} : x \in 1..Len(fields)}

\* a Convert call that returned a Group
ConvertGaveGroup == converted.called /\ ~converted.res.panic /\ converted.res.err = NoError

\* the Settings of g are the fields of flat that are no structs, by name and
\* by the address they set
SettingsAre(g, flat) ==
    /\ Len(g.SettingValues) = Cardinality({f \in flat : f.value.kind = "basic"})
    /\ \A f \in flat :
          f.value.kind = "basic" =>
             \E i \in 1..Len(g.SettingValues) :
                /\ g.SettingValues[i].NameValue = f.Name
                /\ g.SettingValues[i].ptr = f.value.ptr

\* the type name of a field that is a pointer to a struct
PointedType(f) == IF f.value.kind = "struct" THEN f.value.typeName ELSE <<"T", "i", "m", "e">>

\* C17 as claimed: Convert gives an embedded struct no sub-Group and adds its
\* fields as Settings of the parent Group, and each non-embedded
\* pointer-to-struct field becomes exactly one child Group, named after its
\* type, that holds that struct's own Settings.
C17_EmbeddedFlattenedAsClaimed ==
    ConvertGaveGroup =>
        LET g == converted.res.g
            flat == Flattened(converted.v.fields)
            pointers == {f \in flat : f.value.pointer /\ (f.value.kind = "struct"
                                                           \/ f.value.goKind = "time.Time")}
        IN /\ \A f \in flat \ pointers : f.value.kind = "basic" =>
                 \E i \in 1..Len(g.SettingValues) :
                    g.SettingValues[i].NameValue = f.Name /\ g.SettingValues[i].ptr = f.value.ptr
           /\ Len(g.GroupValues) = Cardinality(pointers)
           /\ \A f \in pointers :
                 Cardinality({i \in 1..Len(g.GroupValues) :
                                /\ g.GroupValues[i].NameValue = PointedType(f)
                                /\ f.value.kind = "struct"
                                /\ SettingsAre(g.GroupValues[i], Flattened(f.value.fields))}) = 1

\* C17 amended: the same, the child Group being named by the struct's Name()
\* method when it has one and after its type otherwise, and a *time.Time
\* field being a Setting and no Group.
C17_EmbeddedFlattened ==
    ConvertGaveGroup =>
        LET g == converted.res.g
            flat == Flattened(converted.v.fields)
            pointers == {f \in flat : f.value.pointer /\ f.value.kind = "struct"}
        IN /\ SettingsAre(g, flat)
           /\ Len(g.GroupValues) = Cardinality(pointers)
           /\ \A f \in pointers :
                 Cardinality({i \in 1..Len(g.GroupValues) :
                                /\ g.GroupValues[i].NameValue = GroupName(f.value)
                                /\ SettingsAre(g.GroupValues[i], Flattened(f.value.fields))}) = 1

\* &St{*Sb, I *In}: the Group has the Setting W of the embedded Sb and the
\* one child Group In
C17_Witness ==
    /\ ConvertGaveGroup
    /\ Len(converted.v.fields) = 2
    /\ \E x, y \in 1..2 :
          /\ converted.v.fields[x].Anonymous
          /\ converted.v.fields[x].value.pointer
          /\ ~converted.v.fields[y].Anonymous
          /\ converted.v.fields[y].value.kind = "struct"
    /\ Len(converted.res.g.SettingValues) = 1
    /\ converted.res.g.SettingValues[1].NameValue = <<"W">>
    /\ Len(converted.res.g.GroupValues) = 1
    /\ converted.res.g.GroupValues[1].NameValue = <<"I", "n">>

\* the Setting variant the value model has for each field type: those of
\* settingFromValue and the two it leaves out
ClaimedVariant ==
    VariantOfKind @@ "[]bool" :> "BoolSlice" @@ "map[string]string" :> "StringMapString"

\* a Convert call on &struct{ V T }{...}, V an exported field of a type T
\* of the value model
ConvertedOneField ==
    /\ converted.called
    /\ converted.v.kind = "struct"
    /\ converted.v.pointer /\ ~converted.v.isNil
    /\ Len(converted.v.fields) = 1
    /\ converted.v.fields[1].value.kind = "basic"
    /\ converted.v.fields[1].exported
    /\ ~converted.v.fields[1].value.pointer
    /\ ~converted.v.fields[1].value.defined
    /\ converted.v.fields[1].value.goKind \in DOMAIN ClaimedVariant

\* C18: for a field of every type that has a Setting variant, []bool and
\* map[string]string included, Convert succeeds with a Setting of that
\* variant, named after the field, holding the field's value and described
\* by the field's description tag.
C18_SettingPerSupportedType ==
    ConvertedOneField =>
        LET f == converted.v.fields[1]
        IN /\ ~converted.res.panic
           /\ converted.res.err = NoError
           /\ converted.res.g.SettingValues =
                 <<SettingAt(f.Name, f.description, ClaimedVariant[f.value.goKind],
                             f.value.ptr)>>

RECURSIVE Origins(_, _)
\* the <<Group, field>> pairs of a struct's fields, those of its embedded
\* structs counted as its own and those of its nested structs under the
\* nested Group's name
Origins(name, fields) ==
    UNION {LET f == fields[x]
           IN IF f.value.kind = "struct" /\ ~(f.value.pointer /\ f.value.isNil)
              THEN IF f.Anonymous
                   THEN Origins(name, f.value.fields)
                   ELSE {<<name, f.Name>>} \cup Origins(GroupName(f.value), f.value.fields)
              ELSE {<<name, f.Name>>} : x \in 1..Len(fields)}

\* C19: when Convert of a pointer to a struct returns an error, it returns
\* no Group and the error names a Group and a field of that Group in the
\* struct.
C19_FieldErrorNamesGroupAndField ==
    (/\ converted.called
     /\ converted.v.kind = "struct"
     /\ converted.v.pointer /\ ~converted.v.isNil
     /\ ~converted.res.panic
     /\ converted.res.err # NoError) =>
        /\ converted.res.g = NoGroup
        /\ {"name", "field"} \subseteq DOMAIN converted.res.err
        /\ <<converted.res.err.name, converted.res.err.field>>
              \in Origins(GroupName(converted.v), converted.v.fields)

\* Convert is given nil, a nil pointer, a value that is no struct, a struct
\* by value, or a pointer to a struct whose one field is a nested struct
\* held by value
ConvertedBadInput ==
    /\ converted.called
    /\ \/ converted.v.kind = "nil"
       \/ converted.v.kind = "basic"
       \/ /\ converted.v.kind = "struct"
          /\ \/ converted.v.pointer /\ converted.v.isNil
             \/ ~converted.v.pointer
             \/ /\ Len(converted.v.fields) = 1
                /\ converted.v.fields[1].value.kind = "struct"
                /\ converted.v.fields[1].exported
                /\ ~converted.v.fields[1].Anonymous
                /\ ~converted.v.fields[1].value.pointer

\* C20: for nil, a nil pointer, a non-struct and an unaddressable struct
\* Convert returns an error and no Group, and does not panic.
C20_BadInputIsAnError ==
    ConvertedBadInput =>
        /\ ~converted.res.panic
        /\ converted.res.err # NoError
        /\ converted.res.g = NoGroup

RECURSIVE LastFirst(_)
\* the fields last-declared first, an embedded struct replaced by its own
\* fields in the same order
LastFirst(fields) ==
    IF fields = <<>> THEN <<>>
    ELSE LET f == fields[Len(fields)]
         IN (IF f.Anonymous /\ f.value.kind = "struct"
             THEN LastFirst(f.value.fields)
             ELSE <<f>>) \o LastFirst(SubSeq(fields, 1, Len(fields) - 1))

IsSettingField(f) == f.value.kind = "basic"
IsGroupField(f) == f.value.kind = "struct"

RECURSIVE InOrder(_, _)
\* the Settings and the child Groups of g are those of the fields, in the
\* order last-declared first, and so in every child Group
InOrder(g, fields) ==
    LET sets == SelectSeq(LastFirst(fields), IsSettingField)
        grps == SelectSeq(LastFirst(fields), IsGroupField)
    IN /\ Len(g.SettingValues) = Len(sets)
       /\ \A i \in 1..Len(sets) :
             /\ g.SettingValues[i].NameValue = sets[i].Name
             /\ g.SettingValues[i].ptr = sets[i].value.ptr
       /\ Len(g.GroupValues) = Len(grps)
       /\ \A i \in 1..Len(grps) :
             /\ g.GroupValues[i].NameValue = GroupName(grps[i].value)
             /\ InOrder(g.GroupValues[i], grps[i].value.fields)

\* C26: the Settings and the child Groups of the Group Convert returns are
\* in reverse declaration order, the fields of an embedded struct taking the
\* place of the embedded field.
C26_LastDeclaredFirst ==
    ConvertGaveGroup => InOrder(converted.res.g, converted.v.fields)

\* &St{V string, Sb{W bool, Y int}, N int}: the Settings are N, Y, W, V
C26_Witness ==
    /\ ConvertGaveGroup
    /\ Len(converted.v.fields) = 3
    /\ converted.v.fields[2].Anonymous
    /\ [i \in 1..Len(converted.res.g.SettingValues) |->
          converted.res.g.SettingValues[i].NameValue] = <<<<"N">>, <<"Y">>, <<"W">>, <<"V">>>>

RECURSIVE UniqueNames(_)
\* no two Settings and no two child Groups of g share a name, and so in
\* every Group below g
UniqueNames(g) ==
    /\ \A i, j \in 1..Len(g.SettingValues) :
          i # j => g.SettingValues[i].NameValue # g.SettingValues[j].NameValue
    /\ \A i, j \in 1..Len(g.GroupValues) :
          i # j => g.GroupValues[i].NameValue # g.GroupValues[j].NameValue
    /\ \A i \in 1..Len(g.GroupValues) : UniqueNames(g.GroupValues[i])

\* C27: in the Group tree Convert returns no two Settings of a Group and no
\* two child Groups of a Group share a name.
C27_NamesUnique ==
    ConvertGaveGroup => UniqueNames(converted.res.g)

\* C21: the Group Convert returns has the struct's declared type name and
\* an empty description, the result of Name() replacing the name and the
\* result of Description() the description when the struct has the method.
C21_GroupNamedAfterType ==
    ConvertGaveGroup =>
        /\ converted.res.g.NameValue =
              IF converted.v.namer.has THEN converted.v.namer.text ELSE converted.v.typeName
        /\ converted.res.g.DescriptionValue =
              IF converted.v.describer.has THEN converted.v.describer.text ELSE <<>>

-----------------------------------------------------------------------------
(* Inputs of the Setting specification *)

RawChars == {"1", "2", " ", "x"}

\* every string of 1..MaxLen characters of RawChars
ShortStrings == UNION {ListsOfLen(RawChars, n) : n \in 1..MaxLen}

\* the inputs of the repository's tests and documentation
NamedStrings ==
    {<<"1", " ", "2", " ", "3">>, <<"1", " ", "x", " ", "3">>,
     <<"3", "0", "0">>, <<"1", "2", "7">>, <<"-", "1", "2", "8">>,
     <<"-", "1">>, <<"3">>, <<"t">>,
     <<"f", "a", "l", "s", "e">>, <<"t", "r", "u", "e">>,
     <<"t", "r", "u", "e", " ", "t", "r", "u", "e", " ", "f", "a", "l", "s", "e">>,
     <<"o", "n", "e", " ", "t", "w", "o">>}

RawInputs ==
    {RawString(s) : s \in ShortStrings \cup NamedStrings}
    \cup {RawInt(n) : n \in {-1, 0, 2, 300}}
    \cup {RawBool(b) : b \in BOOLEAN}
    \cup {RawNil, RawMap(EmptyMap),
          RawMap(<<"k">> :> RawString(<<"x">>)),
          RawMap(<<"k">> :> RawSlice(<<RawString(<<"x">>), RawString(<<"t">>)>>)),
          RawSlice(<<RawString(<<"1">>), RawString(<<"2">>)>>),
          RawSlice(<<RawString(<<"1">>), RawString(<<"x">>)>>)}

\* the fallback values NewXSetting is given
Fallbacks(variant) ==
    CASE variant = "String" -> {<<>>, <<"d">>}
      [] variant = "Bool" -> BOOLEAN
      [] variant \in {"Int", "Int8", "Uint"} -> {0, 7}
      [] variant = "BoolSlice" -> {<<>>, <<TRUE>>}
      [] variant = "IntSlice" -> {<<>>, <<7, 8>>}
      [] variant = "StringSlice" -> {<<>>, <<<<"d">>>>}
      [] variant = "StringMapStringSlice" ->
            {[k \in {} |-> <<>>], (<<"d">> :> <<<<"d">>>>)}


\* NewXSetting(name, description, fallback)
SettingInit ==
    /\ \E variant \in Variants : \E fallback \in Fallbacks(variant) :
          setting = [variant |-> variant, value |-> fallback, prev |-> fallback]
    /\ setCall = NoCall
    /\ Idle({"env", "multi", "load", "component", "map"})

\* s.SetValue(raw)
SetValueCall ==
    \E raw \in RawInputs :
        LET r == SetValue(setting.variant, setting.value, raw)
        IN /\ setting' = [setting EXCEPT !.value = r.val, !.prev = setting.value]
           /\ setCall' = [called |-> TRUE, raw |-> raw, err |-> r.err]
           /\ UNCHANGED <<envVars, multiVars, mapVars, loadVars, compVars>>

SettingNext == SetValueCall

SettingSpec == SettingInit /\ [][SettingNext]_vars

-----------------------------------------------------------------------------
(* Claims on the Setting variants *)

\* C1: whenever SetValue(raw) returns a non-nil error, Value() after the call
\* equals Value() before the call (for every variant; a slice input with one
\* malformed element applies none of its elements).
C1_FailedSetValueKeepsValue ==
    (setCall.called /\ setCall.err # NoError) => setting.value = setting.prev

\* strings.Join(strs, " ")
RECURSIVE JoinSpace(_)
JoinSpace(strs) ==
    IF Len(strs) = 0 THEN <<>>
    ELSE IF Len(strs) = 1 THEN strs[1]
    ELSE strs[1] \o <<" ">> \o JoinSpace(Tail(strs))

FormatBool(b) == IF b THEN <<"t", "r", "u", "e">> ELSE <<"f", "a", "l", "s", "e">>

\* the typed values whose textual form is among the inputs
IntWindow(variant) ==
    CASE variant = "Int8" -> (0 - 128)..127
      [] variant = "Uint" -> 0..300
      [] OTHER -> (0 - 128)..300

SeqsUpTo3(S) == {<<>>} \cup {<<a>> : a \in S} \cup {<<a, b>> : a, b \in S}
                    \cup {<<a, b, c>> : a, b, c \in S}

====
